---- MODULE Spec2Model ----
(* Process lifecycle of the weenix kernel (proc.c): proc_create, proc_cleanup, *)
(* proc_thread_exiting, proc_destroy and do_waitpid, run by one kernel thread  *)
(* per process. Threads are preemptible: every statement that reads or writes  *)
(* shared process state is a step of its own, and steps of different threads   *)
(* interleave freely.                                                          *)
EXTENDS Integers, Sequences, FiniteSets, TLC

\* ---------------------------------------------------------------- bounds
MaxPid == 4
MaxProcs == 3
NFILES == 2
MaxFiles == 2
\* The line discipline's buffer holds 2 ^ LdiscBits bytes, and a read asks
\* for at most MaxCount.
LdiscBits == 2
\* size_t is taken SizeBits wide.
SizeBits == 16
MaxCount == 2

\* ------------------------------------------------------------- constants
\* The headers that give the errno values are not among the sources; the
\* operations only need ENOTSUP and ECHILD to be distinct and positive.
PROC_MAX_COUNT == MaxPid + 1
PID_IDLE == 0
PID_INIT == 1
ENOTSUP == 95
ECHILD == 10
NULLP == 0 - 1
EXIT_STATUS == 1000
EINTR == 4
EINVAL == 22
EMFILE == 24
EISDIR == 21
ENOMEM == 12
ENOENT == 2
O_RDONLY == 0
O_WRONLY == 1
O_RDWR == 2
O_TRUNC == 512
O_APPEND == 1024
FMODE_READ == 1
FMODE_WRITE == 2
FMODE_APPEND == 4
LDISC_BUFFER_SIZE == 2 ^ LdiscBits

TreeProcs == MaxProcs + 1
Desc == 0 .. TreeProcs
idleproc == 0
Pids == 1 .. (PROC_MAX_COUNT - 1)
ExitStatuses == {0, EXIT_STATUS}
WaitPidArgs == {0 - 2, 0 - 1, 0} \cup Pids
\* File descriptors, open files (file_t objects) and vnodes; the working
\* directories of all processes are drawn from one vnode.
Fds == 0 .. (NFILES - 1)
Files == 1 .. MaxFiles
Vnodes == {1}
NoFiles == [fd \in Fds |-> NULLP]

VARIABLES
    p_pid, p_state, p_status, p_pproc, p_children, p_wait,
    proc_list, next_pid, proc_initproc, slab_live, slab_next, slab_cap,
    pc, kt_state, kt_retval, loc, last, halted, at_exit,
    p_files, p_cwd, f_refcount, vn_refcount, f_mode,
    p_threads, kt_cancelled, ka,
    ldisc_buffer, ldisc_head, ldisc_tail, ldisc_cooked, ldisc_full,
    ldisc_read_queue, tty_lock, rd_pc, rd_ret, rd_cancelled, ld_last, ld_typed

procVars == <<p_pid, p_state, p_status, p_pproc, p_children, p_wait>>
globVars == <<proc_list, next_pid, proc_initproc, slab_live, slab_next, slab_cap>>
thrVars == <<pc, kt_state, kt_retval, loc>>
fileVars == <<p_files, p_cwd, f_refcount, vn_refcount>>
killVars == <<p_threads, kt_cancelled, ka>>
ldiscVars == <<ldisc_buffer, ldisc_head, ldisc_tail, ldisc_cooked, ldisc_full,
               ldisc_read_queue, tty_lock, rd_pc, rd_ret, rd_cancelled, ld_last, ld_typed>>
lifeVars == <<procVars, globVars, thrVars, last, halted, at_exit, fileVars, killVars, f_mode>>
vars == <<lifeVars, ldiscVars>>

\* Locals of the operation a thread is executing.
NoLoc == [arg |-> 0, pid |-> 0, child |-> NULLP, status |-> 0, sp |-> TRUE]
\* at_exit[d] is a history variable, written when d calls do_exit: the
\* processes that were on d's child list, and whether d's parent was then
\* asleep in do_waitpid(-1) with d as its only child.
NoExit == [kids |-> {}, awaited |-> FALSE]
\* The call that returned in the step just taken, if one did: the calling
\* process, the call, its argument, the value returned (a pid or -errno for
\* do_waitpid, a descriptor or NULL for proc_create) and, when do_waitpid
\* reaped a child, *status and the descriptor it destroyed. NoRet after a
\* step in which no call returned.
NoRet == [t |-> NULLP, op |-> "none", arg |-> 0, val |-> 0, status |-> 0,
          wrote |-> FALSE, child |-> NULLP]
\* Locals of a proc_kill_all call: the member of proc_list the iteration is
\* at, with (as history) the processes that were registered when the call
\* began, those of them that were RUNNING, and the processes the call has
\* passed to proc_kill.
NoKill == [cur |-> NULLP, reg |-> {}, live |-> {}, hit |-> {}]

\* ---------------------------------------------------------- list helpers
RECURSIVE SeqToSet(_)
SeqToSet(s) == IF s = <<>> THEN {} ELSE {Head(s)} \cup SeqToSet(Tail(s))

list_empty_never(s) == FALSE

list_empty(s) == s = <<>>

list_insert_head(s, d) == <<d>> \o s

list_insert_tail(s, d) == Append(s, d)

SeqRemove_Keep(s, d) == s

RECURSIVE SeqRemove(_, _)
SeqRemove(s, d) ==
    IF s = <<>> THEN <<>>
    ELSE IF Head(s) = d THEN SeqRemove(Tail(s), d)
    ELSE <<Head(s)>> \o SeqRemove(Tail(s), d)

\* list_remove(&child->p_child_link): unlinks the child from whichever child
\* list its link is on.
list_remove_child(ch, c) == [d \in Desc |-> SeqRemove(ch[d], c)]

\* list_iterate with a test and an early exit: the first member of list s
\* whose field f has value v, NULL when there is none.
RECURSIVE FirstWith(_, _, _)
FirstWith(s, f, v) ==
    IF s = <<>> THEN NULLP
    ELSE IF f[Head(s)] = v THEN Head(s)
    ELSE FirstWith(Tail(s), f, v)

\* ------------------------------------------------------------ _proc_getid
NextPidAfter_NoWrap(pid) == pid + 1

NextPidAfter(pid) == IF pid + 1 = PROC_MAX_COUNT THEN 1 ELSE pid + 1

ListPids(lst, pids) == { pids[d] : d \in SeqToSet(lst) }

RECURSIVE GetIdScan(_, _, _)
GetIdScan(pid, start, used) ==
    IF pid \in used
    THEN IF NextPidAfter(pid) = start THEN 0 - 1
         ELSE GetIdScan(NextPidAfter(pid), start, used)
    ELSE pid

proc_getid(lst, pids, cursor) == GetIdScan(cursor, cursor, ListPids(lst, pids))

\* ------------------------------------------------------ files and vnodes
\* The number of slots of file table tbl that hold file f.
Slots(tbl, f) == Cardinality({ fd \in Fds : tbl[fd] = f })

\* fref of every open file of table tbl: one more reference per slot.
fref_all(cnt, tbl) == [f \in Files |-> cnt[f] + Slots(tbl, f)]

\* fput of every occupied slot of table tbl: one reference less per slot
\* (fput also clears the slot it is given).
fput_all(cnt, tbl) == [f \in Files |-> cnt[f] - Slots(tbl, f)]

\* vref(vn) and vput(&vn) on a working directory that may be NULL.
vref(cnt, vn) == IF vn = NULLP THEN cnt ELSE [cnt EXCEPT ![vn] = @ + 1]

vput(cnt, vn) == IF vn = NULLP THEN cnt ELSE [cnt EXCEPT ![vn] = @ - 1]

\* The child's file table after the loop of proc_create: memset has made
\* every slot NULL, and memcpy(proc->p_files[fd], ...) copies the parent's
\* file object to the address held in the slot, not into the slot, so every
\* slot is still NULL.
CloneFiles(tbl) == [fd \in Fds |-> NULLP]

\* ------------------------------------------------------- line discipline
\* Bytes of the buffer: zero, an ordinary character, newline and EOT; the
\* keys that can be pressed add ETX and backspace.
Bytes == {"nul", "a", "nl", "eot"}
Keys == {"a", "nl", "eot", "etx", "bs"}
Slot == 0 .. (LDISC_BUFFER_SIZE - 1)
\* ld_typed[i] is a history variable: the byte the last key stored in slot i
\* was.
\* What the last line-discipline call did: the call, the key, whether the
\* key was stored, the value returned and the bytes copied out.
NoLd == [op |-> "none", c |-> "nul", ok |-> FALSE, val |-> 0, buf |-> <<>>]

\* ldisc_init, with no read in progress.
ldisc_init ==
    /\ ldisc_cooked = 0
    /\ ldisc_tail = 0
    /\ ldisc_head = 0
    /\ ldisc_full = 0
    /\ ldisc_read_queue = {}
    /\ ldisc_buffer = [i \in Slot |-> "nul"]
    /\ tty_lock = FALSE
    /\ rd_pc = "idle"
    /\ rd_ret = 0
    /\ rd_cancelled = FALSE
    /\ ld_last = NoLd
    /\ ld_typed = [i \in Slot |-> "nul"]

\* ------------------------------------------------------------------ Init
Boot(cap) ==
    /\ p_pid = [d \in Desc |-> 0]
    /\ p_state = [d \in Desc |-> "RUNNING"]
    /\ p_status = [d \in Desc |-> 0]
    /\ p_pproc = [d \in Desc |-> NULLP]
    /\ p_children = [d \in Desc |-> <<>>]
    /\ p_wait = [d \in Desc |-> {}]
    /\ proc_list = <<>>
    /\ next_pid = 1
    /\ proc_initproc = NULLP
    /\ slab_live = {}
    /\ slab_next = 1
    /\ slab_cap = cap
    /\ pc = [d \in Desc |-> IF d = idleproc THEN "run" ELSE "none"]
    /\ kt_state = [d \in Desc |-> "KT_NO_STATE"]
    /\ kt_retval = [d \in Desc |-> 0]
    /\ loc = [d \in Desc |-> NoLoc]
    /\ last = NoRet
    /\ halted = "no"
    /\ at_exit = [d \in Desc |-> NoExit]
    /\ p_files = [d \in Desc |-> NoFiles]
    /\ p_cwd = [d \in Desc |-> NULLP]
    /\ f_refcount = [f \in Files |-> 0]
    /\ vn_refcount = [v \in Vnodes |-> 0]
    /\ p_threads = [d \in Desc |-> {}]
    /\ kt_cancelled = [d \in Desc |-> FALSE]
    /\ ka = [d \in Desc |-> NoKill]
    /\ f_mode = [f \in Files |-> 0]
    /\ ldisc_init

Init == Boot(MaxProcs)

\* ------------------------------------------------------------ scheduler
\* sched_broadcast_on(q): every thread blocked on q becomes runnable and
\* resumes after its sched_sleep_on call.
Resume_NoRecheck(label) ==
    IF label = "wp_asleep" THEN "w_status"
    ELSE IF label = "wa_asleep" THEN "wa_scan"
    ELSE label

Resume(label) ==
    IF label = "wp_asleep" THEN "wp_check"
    ELSE IF label = "wa_asleep" THEN "wa_scan"
    ELSE label

sched_broadcast_on(q, pcs) == [d \in Desc |-> IF d \in q THEN Resume(pcs[d]) ELSE pcs[d]]

Running == halted = "no"

\* ----------------------------------------------------------- proc_create
\* Calls of proc_create that have chosen a pid and not yet been given a
\* descriptor by the slab allocator.
Allocating == { t \in Desc : pc[t] = "pc_alloc" }

CreateRet(t, val) == [NoRet EXCEPT !.t = t, !.op = "create", !.val = val]

\* proc_create, first statement: pid = _proc_getid(), NULL when it is -1.
\* The idle process creates the init process once, at boot.
CreateGetId(t) ==
    /\ Running
    /\ pc[t] = "run"
    /\ slab_next + Cardinality(Allocating) <= slab_cap
    /\ t = idleproc => proc_initproc = NULLP
    /\ LET pid == proc_getid(proc_list, p_pid, next_pid) IN
         IF pid < 0
         THEN /\ last' = CreateRet(t, NULLP)
              /\ UNCHANGED <<pc, loc, next_pid>>
         ELSE /\ next_pid' = NextPidAfter(pid)
              /\ loc' = [loc EXCEPT ![t] = [NoLoc EXCEPT !.pid = pid]]
              /\ pc' = [pc EXCEPT ![t] = "pc_alloc"]
              /\ last' = NoRet
    /\ UNCHANGED <<ldiscVars, f_mode, procVars, proc_list, proc_initproc, slab_live, slab_next, slab_cap,
                   kt_state, kt_retval, halted, at_exit, fileVars, killVars>>

CreateAllocFail_Registers(t) ==
    /\ Running
    /\ pc[t] = "pc_alloc"
    /\ t # idleproc
    /\ pc' = [pc EXCEPT ![t] = "run"]
    /\ loc' = [loc EXCEPT ![t] = NoLoc]
    /\ last' = CreateRet(t, NULLP)
    /\ proc_list' = list_insert_tail(proc_list, slab_next)
    /\ p_pid' = [p_pid EXCEPT ![slab_next] = loc[t].pid]
    /\ UNCHANGED <<ldiscVars, f_mode, p_state, p_status, p_pproc, p_children, p_wait, next_pid, proc_initproc,
                   slab_live, slab_next, slab_cap, kt_state, kt_retval, halted, at_exit,
                   fileVars, killVars>>

\* slab_obj_alloc fails: proc_create returns NULL. (The boot code asserts that
\* the init process was created.)
CreateAllocFail(t) ==
    /\ Running
    /\ pc[t] = "pc_alloc"
    /\ t # idleproc
    /\ pc' = [pc EXCEPT ![t] = "run"]
    /\ loc' = [loc EXCEPT ![t] = NoLoc]
    /\ last' = CreateRet(t, NULLP)
    /\ UNCHANGED <<ldiscVars, f_mode, procVars, globVars, kt_state, kt_retval, halted, at_exit, fileVars, killVars>>

\* slab_obj_alloc succeeds; the fields of the new descriptor are initialised,
\* proc_initproc is set when the pid is PID_INIT, and the descriptor is put on
\* curproc's child list. Until that insertion no other thread can reach the
\* descriptor, so the statements before it are one step.
CreateLinkChild(t) ==
    /\ Running
    /\ pc[t] = "pc_alloc"
    /\ LET d == slab_next IN
         /\ slab_next' = slab_next + 1
         /\ slab_live' = slab_live \cup {d}
         /\ p_pid' = [p_pid EXCEPT ![d] = loc[t].pid]
         /\ p_pproc' = [p_pproc EXCEPT ![d] = t]
         /\ p_status' = [p_status EXCEPT ![d] = 0]
         /\ p_state' = [p_state EXCEPT ![d] = "RUNNING"]
         /\ p_wait' = [p_wait EXCEPT ![d] = {}]
         /\ proc_initproc' = IF loc[t].pid = PID_INIT THEN d ELSE proc_initproc
         /\ p_children' = [p_children EXCEPT ![d] = <<>>,
                                             ![t] = list_insert_tail(@, d)]
         /\ loc' = [loc EXCEPT ![t].child = d]
         /\ p_threads' = [p_threads EXCEPT ![d] = {}]
         /\ p_files' = [p_files EXCEPT ![d] = CloneFiles(p_files[t])]
         /\ f_refcount' = fref_all(f_refcount, p_files[t])
         /\ p_cwd' = [p_cwd EXCEPT ![d] = p_cwd[t]]
         /\ vn_refcount' = vref(vn_refcount, p_cwd[t])
    /\ pc' = [pc EXCEPT ![t] = "pc_list"]
    /\ last' = NoRet
    /\ UNCHANGED <<ldiscVars, f_mode, proc_list, next_pid, slab_cap, kt_state, kt_retval, halted, at_exit,
                   kt_cancelled, ka>>

\* The first occupied slot of file table tbl.
FirstOpen(tbl) == CHOOSE fd \in Fds : tbl[fd] # NULLP /\ \A g \in Fds : g < fd => tbl[g] = NULLP

\* proc_create by a process with an open file: after fref of the first open
\* file, memcpy(proc->p_files[fd], ...) writes through the NULL pointer that
\* memset has just put in the slot. Where that store faults the kernel stops
\* here; where it does not, proc_create goes on as in CreateLinkChild.
CreateCloneFault(t) ==
    /\ Running
    /\ pc[t] = "pc_alloc"
    /\ \E fd \in Fds : p_files[t][fd] # NULLP
    /\ f_refcount' = [f_refcount EXCEPT ![p_files[t][FirstOpen(p_files[t])]] = @ + 1]
    /\ halted' = "panic"
    /\ last' = NoRet
    /\ UNCHANGED <<ldiscVars, f_mode, procVars, globVars, thrVars, at_exit, p_files, p_cwd, vn_refcount, killVars>>

\* list_insert_tail(&proc_list, &proc->p_list_link); return proc
CreateLinkList(t) ==
    /\ Running
    /\ pc[t] = "pc_list"
    /\ proc_list' = list_insert_tail(proc_list, loc[t].child)
    /\ last' = CreateRet(t, loc[t].child)
    /\ pc' = [pc EXCEPT ![t] = "pc_ret"]
    /\ UNCHANGED <<ldiscVars, f_mode, procVars, next_pid, proc_initproc, slab_live, slab_next, slab_cap,
                   kt_state, kt_retval, loc, halted, at_exit, fileVars, killVars>>

\* The creator gives the new process its thread: kthread_create followed by
\* sched_make_runnable.
StartThread(t) ==
    /\ Running
    /\ pc[t] = "pc_ret"
    /\ LET d == loc[t].child IN
         /\ pc' = [pc EXCEPT ![t] = "run", ![d] = "run"]
         /\ kt_state' = [kt_state EXCEPT ![d] = "KT_RUNNABLE"]
         /\ p_threads' = [p_threads EXCEPT ![d] = {d}]
    /\ loc' = [loc EXCEPT ![t] = NoLoc]
    /\ last' = NoRet
    /\ UNCHANGED <<ldiscVars, f_mode, procVars, globVars, kt_retval, halted, at_exit, fileVars, kt_cancelled, ka>>

\* ------------------------------------------------------------ do_waitpid
WaitRet(t, pid, val) == [NoRet EXCEPT !.t = t, !.op = "wait", !.arg = pid, !.val = val]

\* if (pid == 0 || pid < -1 || options)
BadWaitArgs_NoOptions(pid, options) == pid = 0 \/ pid < 0 - 1

BadWaitArgs(pid, options) == pid = 0 \/ pid < 0 - 1 \/ options # 0

ChildWithPid_Registry(t, pid) == FirstWith(proc_list, p_pid, pid)

\* The child of curproc whose pid is `pid` (list_iterate over p_children).
ChildWithPid(t, pid) == FirstWith(p_children[t], p_pid, pid)

FirstDeadChild_Any(t) == IF p_children[t] = <<>> THEN NULLP ELSE Head(p_children[t])

\* The first DEAD member of curproc's child list.
FirstDeadChild(t) == FirstWith(p_children[t], p_state, "DEAD")

\* Entry of do_waitpid(pid, status, options), up to the first statement that
\* can block: the argument check, the lookup of the child and the test for an
\* empty child list. sp says whether status is a non-NULL pointer.
WaitCall(t, pid, options, sp) ==
    /\ Running
    /\ pc[t] = "run"
    /\ t # idleproc
    /\ IF BadWaitArgs(pid, options)
       THEN /\ last' = WaitRet(t, pid, 0 - ENOTSUP)
            /\ UNCHANGED <<pc, loc>>
       ELSE IF pid > 0
       THEN LET c == ChildWithPid(t, pid) IN
              IF c = NULLP
              THEN /\ last' = WaitRet(t, pid, 0 - ECHILD)
                   /\ UNCHANGED <<pc, loc>>
              ELSE /\ loc' = [loc EXCEPT ![t] =
                                [NoLoc EXCEPT !.arg = pid, !.pid = pid, !.child = c, !.sp = sp]]
                   /\ pc' = [pc EXCEPT ![t] = "wp_check"]
                   /\ last' = NoRet
       ELSE IF list_empty(p_children[t])
       THEN /\ last' = WaitRet(t, pid, 0 - ECHILD)
            /\ UNCHANGED <<pc, loc>>
       ELSE /\ loc' = [loc EXCEPT ![t] = [NoLoc EXCEPT !.arg = pid, !.sp = sp]]
            /\ pc' = [pc EXCEPT ![t] = "wa_scan"]
            /\ last' = NoRet
    /\ UNCHANGED <<ldiscVars, f_mode, procVars, globVars, kt_state, kt_retval, halted, at_exit, fileVars, killVars>>

\* while (child->p_state != PROC_DEAD)
WaitPidCheck(t) ==
    /\ Running
    /\ pc[t] = "wp_check"
    /\ pc' = [pc EXCEPT ![t] =
                IF p_state[loc[t].child] # "DEAD" THEN "wp_sleep" ELSE "w_status"]
    /\ last' = NoRet
    /\ UNCHANGED <<ldiscVars, f_mode, procVars, globVars, kt_state, kt_retval, loc, halted, at_exit, fileVars, killVars>>

\* list_iterate(&curproc->p_children, ...) if (child->p_state == PROC_DEAD)
WaitAnyScan(t) ==
    /\ Running
    /\ pc[t] = "wa_scan"
    /\ LET c == FirstDeadChild(t) IN
         IF c = NULLP
         THEN /\ pc' = [pc EXCEPT ![t] = "wa_sleep"]
              /\ UNCHANGED loc
         ELSE /\ pc' = [pc EXCEPT ![t] = "w_status"]
              /\ loc' = [loc EXCEPT ![t].child = c, ![t].pid = p_pid[c]]
    /\ last' = NoRet
    /\ UNCHANGED <<ldiscVars, f_mode, procVars, globVars, kt_state, kt_retval, halted, at_exit, fileVars, killVars>>

\* sched_sleep_on(&curproc->p_wait, ...): the thread enqueues itself on its
\* own process's wait queue and blocks.
sched_sleep_on(t) ==
    /\ Running
    /\ pc[t] \in {"wp_sleep", "wa_sleep"}
    /\ p_wait' = [p_wait EXCEPT ![t] = @ \cup {t}]
    /\ kt_state' = [kt_state EXCEPT ![t] = "KT_SLEEP"]
    /\ pc' = [pc EXCEPT ![t] = IF pc[t] = "wp_sleep" THEN "wp_asleep" ELSE "wa_asleep"]
    /\ last' = NoRet
    /\ UNCHANGED <<ldiscVars, f_mode, p_pid, p_state, p_status, p_pproc, p_children, globVars,
                   kt_retval, loc, halted, at_exit, fileVars, killVars>>

\* *status = child->p_status; a NULL status pointer faults.
WaitStatus(t) ==
    /\ Running
    /\ pc[t] = "w_status"
    /\ IF loc[t].sp
       THEN /\ loc' = [loc EXCEPT ![t].status = p_status[loc[t].child]]
            /\ pc' = [pc EXCEPT ![t] = "w_remove"]
            /\ UNCHANGED halted
       ELSE /\ halted' = "panic"
            /\ UNCHANGED <<pc, loc>>
    /\ last' = NoRet
    /\ UNCHANGED <<ldiscVars, f_mode, procVars, globVars, kt_state, kt_retval, at_exit, fileVars, killVars>>

\* list_remove(&child->p_child_link)
WaitRemove(t) ==
    /\ Running
    /\ pc[t] = "w_remove"
    /\ p_children' = list_remove_child(p_children, loc[t].child)
    /\ pc' = [pc EXCEPT ![t] = "w_destroy"]
    /\ last' = NoRet
    /\ UNCHANGED <<ldiscVars, f_mode, p_pid, p_state, p_status, p_pproc, p_wait, globVars,
                   kt_state, kt_retval, loc, halted, at_exit, fileVars, killVars>>

\* proc_destroy(child), then do_waitpid returns the pid.
proc_destroy(t) ==
    /\ Running
    /\ pc[t] = "w_destroy"
    /\ LET c == loc[t].child IN
         /\ proc_list' = SeqRemove(proc_list, c)
         /\ slab_live' = slab_live \ {c}
         /\ p_threads' = [p_threads EXCEPT ![c] = {}]
         /\ f_refcount' = fput_all(f_refcount, p_files[c])
         /\ p_files' = [p_files EXCEPT ![c] = NoFiles]
         /\ vn_refcount' = vput(vn_refcount, p_cwd[c])
         /\ p_cwd' = [p_cwd EXCEPT ![c] = NULLP]
    /\ last' = [WaitRet(t, loc[t].arg, loc[t].pid) EXCEPT
                  !.status = loc[t].status, !.wrote = TRUE, !.child = loc[t].child]
    /\ loc' = [loc EXCEPT ![t] = NoLoc]
    /\ pc' = [pc EXCEPT ![t] = "run"]
    /\ UNCHANGED <<ldiscVars, f_mode, procVars, next_pid, proc_initproc, slab_next, slab_cap,
                   kt_state, kt_retval, halted, at_exit, kt_cancelled, ka>>

\* ------------------------------------------- do_exit / proc_thread_exiting
\* do_exit(status): kthread_exit((void *)status) enters proc_thread_exiting,
\* whose proc_cleanup starts with curproc->p_state = PROC_DEAD.
do_exit(t, status) ==
    /\ Running
    /\ pc[t] = "run"
    /\ t # idleproc
    /\ p_state' = [p_state EXCEPT ![t] = "DEAD"]
    /\ loc' = [loc EXCEPT ![t] = [NoLoc EXCEPT !.status = status]]
    /\ pc' = [pc EXCEPT ![t] = "cl_status"]
    /\ last' = NoRet
    /\ at_exit' = [at_exit EXCEPT ![t] =
                     [kids |-> SeqToSet(p_children[t]),
                      awaited |-> /\ pc[p_pproc[t]] = "wa_asleep"
                                  /\ p_children[p_pproc[t]] = <<t>>]]
    /\ UNCHANGED <<ldiscVars, f_mode, p_pid, p_status, p_pproc, p_children, p_wait, globVars,
                   kt_state, kt_retval, halted, fileVars, killVars>>

\* proc_cleanup: curproc->p_status = status, then fput of every open file
\* and vput of the working directory.
CleanupStatus(t) ==
    /\ Running
    /\ pc[t] = "cl_status"
    /\ p_status' = [p_status EXCEPT ![t] = loc[t].status]
    /\ f_refcount' = fput_all(f_refcount, p_files[t])
    /\ p_files' = [p_files EXCEPT ![t] = NoFiles]
    /\ vn_refcount' = vput(vn_refcount, p_cwd[t])
    /\ p_cwd' = [p_cwd EXCEPT ![t] = NULLP]
    /\ pc' = [pc EXCEPT ![t] = "cl_loop"]
    /\ last' = NoRet
    /\ UNCHANGED <<ldiscVars, f_mode, p_pid, p_state, p_pproc, p_children, p_wait, globVars,
                   kt_state, kt_retval, loc, halted, at_exit, killVars>>

CleanupInit_Reparents(t) ==
    /\ Running
    /\ pc[t] = "cl_loop"
    /\ p_pid[t] = PID_INIT
    /\ halted' = "shutdown"
    /\ last' = NoRet
    /\ p_children' = [p_children EXCEPT ![t] = <<>>]
    /\ UNCHANGED <<ldiscVars, f_mode, p_pid, p_state, p_status, p_pproc, p_wait, globVars, thrVars,
                   at_exit, fileVars, killVars>>

\* proc_cleanup of the init process: initproc_finish() shuts the system down.
CleanupInit(t) ==
    /\ Running
    /\ pc[t] = "cl_loop"
    /\ p_pid[t] = PID_INIT
    /\ halted' = "shutdown"
    /\ last' = NoRet
    /\ UNCHANGED <<ldiscVars, f_mode, procVars, globVars, thrVars, at_exit, fileVars, killVars>>

\* Reparenting loop: list_remove(&child->p_child_link) for the next child.
CleanupRemove(t) ==
    /\ Running
    /\ pc[t] = "cl_loop"
    /\ p_pid[t] # PID_INIT
    /\ ~list_empty(p_children[t])
    /\ LET c == Head(p_children[t]) IN
         /\ p_children' = list_remove_child(p_children, c)
         /\ loc' = [loc EXCEPT ![t].child = c]
    /\ pc' = [pc EXCEPT ![t] = "cl_ins"]
    /\ last' = NoRet
    /\ UNCHANGED <<ldiscVars, f_mode, p_pid, p_state, p_status, p_pproc, p_wait, globVars,
                   kt_state, kt_retval, halted, at_exit, fileVars, killVars>>

CleanupInsert_Drop(t) ==
    /\ Running
    /\ pc[t] = "cl_ins"
    /\ pc' = [pc EXCEPT ![t] = "cl_pp"]
    /\ last' = NoRet
    /\ UNCHANGED <<ldiscVars, f_mode, procVars, globVars, kt_state, kt_retval, loc, halted, at_exit, fileVars, killVars>>

\* list_insert_tail(&proc_initproc->p_children, &child->p_child_link)
CleanupInsert(t) ==
    /\ Running
    /\ pc[t] = "cl_ins"
    /\ p_children' = [p_children EXCEPT ![proc_initproc] = list_insert_tail(@, loc[t].child)]
    /\ pc' = [pc EXCEPT ![t] = "cl_pp"]
    /\ last' = NoRet
    /\ UNCHANGED <<ldiscVars, f_mode, p_pid, p_state, p_status, p_pproc, p_wait, globVars,
                   kt_state, kt_retval, loc, halted, at_exit, fileVars, killVars>>

CleanupParent_Keep(t) ==
    /\ Running
    /\ pc[t] = "cl_pp"
    /\ loc' = [loc EXCEPT ![t].child = NULLP]
    /\ pc' = [pc EXCEPT ![t] = "cl_loop"]
    /\ last' = NoRet
    /\ UNCHANGED <<ldiscVars, f_mode, procVars, globVars, kt_state, kt_retval, halted, at_exit, fileVars, killVars>>

\* child->p_pproc = proc_initproc
CleanupParent(t) ==
    /\ Running
    /\ pc[t] = "cl_pp"
    /\ p_pproc' = [p_pproc EXCEPT ![loc[t].child] = proc_initproc]
    /\ loc' = [loc EXCEPT ![t].child = NULLP]
    /\ pc' = [pc EXCEPT ![t] = "cl_loop"]
    /\ last' = NoRet
    /\ UNCHANGED <<ldiscVars, f_mode, p_pid, p_state, p_status, p_children, p_wait, globVars,
                   kt_state, kt_retval, halted, at_exit, fileVars, killVars>>

\* proc_cleanup returns; curthr->kt_retval = retval; kt_state = KT_EXITED
ExitState(t) ==
    /\ Running
    /\ pc[t] = "cl_loop"
    /\ p_pid[t] # PID_INIT
    /\ list_empty(p_children[t])
    /\ kt_state' = [kt_state EXCEPT ![t] = "KT_EXITED"]
    /\ pc' = [pc EXCEPT ![t] = "te_bcast"]
    /\ last' = NoRet
    /\ kt_retval' = [kt_retval EXCEPT ![t] = loc[t].status]
    /\ UNCHANGED <<ldiscVars, f_mode, procVars, globVars, loc, halted, at_exit, fileVars, killVars>>

\* sched_broadcast_on(&curproc->p_pproc->p_wait); sched_switch(NULL, NULL):
\* the thread never runs again.
ExitBroadcast(t) ==
    /\ Running
    /\ pc[t] = "te_bcast"
    /\ LET q == p_wait[p_pproc[t]] IN
         /\ pc' = [sched_broadcast_on(q, pc) EXCEPT ![t] = "exited"]
         /\ kt_state' = [d \in Desc |-> IF d \in q THEN "KT_RUNNABLE" ELSE kt_state[d]]
         /\ p_wait' = [p_wait EXCEPT ![p_pproc[t]] = {}]
    /\ loc' = [loc EXCEPT ![t] = NoLoc]
    /\ last' = NoRet
    /\ UNCHANGED <<ldiscVars, f_mode, p_pid, p_state, p_status, p_pproc, p_children, globVars,
                   kt_retval, halted, at_exit, fileVars, killVars>>

\* ------------------------------------------------- proc_kill / proc_kill_all
\* The member of list s after c, NULL when c is the last one.
RECURSIVE ListNext(_, _)
ListNext(s, c) ==
    IF s = <<>> THEN NULLP
    ELSE IF Head(s) = c THEN (IF Tail(s) = <<>> THEN NULLP ELSE Head(Tail(s)))
    ELSE ListNext(Tail(s), c)

\* if (proc->p_pid != curproc->p_pid && proc->p_pid != PID_IDLE &&
\*     proc->p_pid != PID_INIT)
KillTarget(t, c) == p_pid[c] # p_pid[t] /\ p_pid[c] # PID_IDLE /\ p_pid[c] # PID_INIT

\* kthread_cancel(thr, retval) for every thr in thrs: the thread is marked
\* cancelled and retval is stored as its return value. A cancelled thread is
\* not interrupted: it exits when it next looks at the mark.
Cancelled(can, thrs) == [d \in Desc |-> d \in thrs \/ can[d]]

CancelRetval(rv, thrs, status) == [d \in Desc |-> IF d \in thrs THEN status ELSE rv[d]]

\* proc_kill_all, entry: list_iterate starts at the head of proc_list, which
\* it reads without proc_list_lock.
proc_kill_all(t) ==
    /\ Running
    /\ pc[t] = "run"
    /\ t # idleproc
    /\ ka' = [ka EXCEPT ![t] = [cur |-> IF proc_list = <<>> THEN NULLP ELSE Head(proc_list),
                                 reg |-> SeqToSet(proc_list),
                                 live |-> { d \in SeqToSet(proc_list) :
                                              p_state[d] = "RUNNING" },
                                 hit |-> {}]]
    /\ pc' = [pc EXCEPT ![t] = "ka_loop"]
    /\ last' = NoRet
    /\ UNCHANGED <<ldiscVars, f_mode, procVars, globVars, kt_state, kt_retval, loc, halted, at_exit,
                   fileVars, p_threads, kt_cancelled>>

\* One round of the loop of proc_kill_all: the test, proc_kill(proc, -1) when
\* it passes, and the move to the next member of proc_list.
KillAllVisit(t) ==
    /\ Running
    /\ pc[t] = "ka_loop"
    /\ ka[t].cur \in SeqToSet(proc_list)
    /\ LET c == ka[t].cur IN
         IF KillTarget(t, c)
         THEN /\ kt_cancelled' = Cancelled(kt_cancelled, p_threads[c])
              /\ kt_retval' = CancelRetval(kt_retval, p_threads[c], 0 - 1)
              /\ ka' = [ka EXCEPT ![t].cur = ListNext(proc_list, c), ![t].hit = @ \cup {c}]
         ELSE /\ ka' = [ka EXCEPT ![t].cur = ListNext(proc_list, c)]
              /\ UNCHANGED <<kt_cancelled, kt_retval>>
    /\ last' = NoRet
    /\ UNCHANGED <<ldiscVars, f_mode, procVars, globVars, pc, kt_state, loc, halted, at_exit, fileVars, p_threads>>

\* The loop is at a descriptor that proc_destroy has meanwhile unlinked from
\* proc_list and freed: the iteration reads freed memory. It faults, or the
\* stale link takes it to some member of the list or to the end of the list.
KillAllDangling(t) ==
    /\ Running
    /\ pc[t] = "ka_loop"
    /\ ka[t].cur # NULLP
    /\ ka[t].cur \notin SeqToSet(proc_list)
    /\ \/ /\ halted' = "panic"
          /\ UNCHANGED ka
       \/ /\ \E n \in SeqToSet(proc_list) \cup {NULLP} : ka' = [ka EXCEPT ![t].cur = n]
          /\ UNCHANGED halted
    /\ last' = NoRet
    /\ UNCHANGED <<ldiscVars, f_mode, procVars, globVars, thrVars, at_exit, fileVars, p_threads, kt_cancelled>>

\* The loop is over: do_exit(-1).
KillAllExit(t) ==
    /\ Running
    /\ pc[t] = "ka_loop"
    /\ ka[t].cur = NULLP
    /\ p_state' = [p_state EXCEPT ![t] = "DEAD"]
    /\ loc' = [loc EXCEPT ![t] = [NoLoc EXCEPT !.status = 0 - 1]]
    /\ pc' = [pc EXCEPT ![t] = "cl_status"]
    /\ last' = NoRet
    /\ at_exit' = [at_exit EXCEPT ![t] =
                     [kids |-> SeqToSet(p_children[t]),
                      awaited |-> /\ pc[p_pproc[t]] = "wa_asleep"
                                  /\ p_children[p_pproc[t]] = <<t>>]]
    /\ UNCHANGED <<ldiscVars, f_mode, p_pid, p_status, p_pproc, p_children, p_wait, globVars,
                   kt_state, kt_retval, halted, fileVars, killVars>>

\* A cancelled thread that is between operations looks at the mark and exits
\* with the value the cancellation carried: kthread_exit(curthr->kt_retval).
CancelPoint(t) ==
    /\ kt_cancelled[t]
    /\ do_exit(t, kt_retval[t])

\* ------------------------------------------------------------------ Next
\* A thread continues the operation it is in.
Step(t) ==
    \/ CreateLinkChild(t)
    \/ CreateLinkList(t)
    \/ StartThread(t)
    \/ WaitPidCheck(t)
    \/ WaitAnyScan(t)
    \/ sched_sleep_on(t)
    \/ WaitStatus(t)
    \/ WaitRemove(t)
    \/ proc_destroy(t)
    \/ CleanupStatus(t)
    \/ CleanupInit(t)
    \/ CleanupRemove(t)
    \/ CleanupInsert(t)
    \/ CleanupParent(t)
    \/ ExitState(t)
    \/ ExitBroadcast(t)

WaitOptions == {0, 1}

\* A thread that is between operations starts one, with any arguments.
Call(t) ==
    \/ CreateGetId(t)
    \/ \E pid \in WaitPidArgs, options \in WaitOptions, sp \in BOOLEAN :
         WaitCall(t, pid, options, sp)
    \/ \E status \in ExitStatuses : do_exit(t, status)

\* The process lifecycle with a slab allocator that has memory for MaxProcs
\* descriptors.
Next == \E t \in Desc : Step(t) \/ Call(t)

Spec == Init /\ [][Next]_vars

\* Every thread that is inside an operation and can run is eventually run.
FairSpec == Spec /\ \A t \in Desc : WF_vars(Step(t))

\* The same, with slab_obj_alloc free to fail in any proc_create.
AllocNext == \E t \in Desc : Step(t) \/ Call(t) \/ CreateAllocFail(t)

AllocSpec == Init /\ [][AllocNext]_vars

\* Process trees of depth three (init, a child, a grandchild, a
\* great-grandchild): memory for TreeProcs descriptors, with the calls that
\* take part in waiting for, and adopting, descendants.
TreeInit == Boot(TreeProcs)

TreeCall(t) ==
    \/ CreateGetId(t)
    \/ \E pid \in {0 - 1} \cup Pids : WaitCall(t, pid, 0, TRUE)
    \/ do_exit(t, 0)

TreeNext == \E t \in Desc : Step(t) \/ TreeCall(t)

TreeSpec == TreeInit /\ [][TreeNext]_vars

\* The lifecycle with proc_kill_all and cancellation: a thread between
\* operations may also call proc_kill_all, and a cancelled one may act on the
\* cancellation.
KillStep(t) ==
    \/ KillAllVisit(t)
    \/ KillAllDangling(t)
    \/ KillAllExit(t)

KillCall(t) ==
    \/ CreateGetId(t)
    \/ \E pid \in {0 - 1} \cup Pids : WaitCall(t, pid, 0, TRUE)
    \/ do_exit(t, EXIT_STATUS)
    \/ proc_kill_all(t)
    \/ CancelPoint(t)

KillNext == \E t \in Desc : Step(t) \/ KillStep(t) \/ KillCall(t)

KillSpec == Init /\ [][KillNext]_vars

\* Creation under pressure: memory for TreeProcs descriptors, slab_obj_alloc
\* free to fail, and processes that only call proc_create.
PidStep(t) ==
    \/ CreateAllocFail(t)
    \/ CreateLinkChild(t)
    \/ CreateLinkList(t)
    \/ StartThread(t)

PidNext == \E t \in Desc : PidStep(t) \/ CreateGetId(t)

PidSpec == TreeInit /\ [][PidNext]_vars

\* _proc_getid on any registry: the system some time after boot, with the
\* init process and any set of further pids registered (descriptor k holds
\* the k-th smallest of them, all are children of the init process and
\* between operations) and the cursor anywhere; or the system at boot. Every
\* thread calls proc_create, and every slab_obj_alloc fails, so the registry
\* stays as it is and only the cursor moves. The init process has any file
\* table and working directory.
PidRank(U, pid) == Cardinality({ q \in U : q <= pid })

PidOfDesc(U, d) == IF d \in 1 .. Cardinality(U)
                   THEN CHOOSE q \in U : PidRank(U, q) = d
                   ELSE 0

RECURSIVE Upto(_)
Upto(n) == IF n = 0 THEN <<>> ELSE Append(Upto(n - 1), n)

GetIdInit ==
    \E U \in SUBSET Pids, cursor \in Pids,
       tbl \in [Fds -> Files \cup {NULLP}], cwd \in Vnodes \cup {NULLP} :
      LET n == Cardinality(U) IN
      /\ IF U = {} THEN cursor = 1 /\ tbl = NoFiles /\ cwd = NULLP ELSE PID_INIT \in U
      /\ p_pid = [d \in Desc |-> PidOfDesc(U, d)]
      /\ p_state = [d \in Desc |-> "RUNNING"]
      /\ p_status = [d \in Desc |-> 0]
      /\ p_pproc = [d \in Desc |-> IF d = 1 /\ n > 0 THEN idleproc
                                    ELSE IF d \in 2 .. n THEN 1 ELSE NULLP]
      /\ p_children = [d \in Desc |-> IF d = idleproc /\ n > 0 THEN <<1>>
                                       ELSE IF d = 1 /\ n > 1 THEN Tail(Upto(n))
                                       ELSE <<>>]
      /\ p_wait = [d \in Desc |-> {}]
      /\ proc_list = Upto(n)
      /\ next_pid = cursor
      /\ proc_initproc = IF n > 0 THEN 1 ELSE NULLP
      /\ slab_live = 1 .. n
      /\ slab_next = n + 1
      /\ slab_cap = TreeProcs + 1
      /\ pc = [d \in Desc |-> IF d \in 0 .. n THEN "run" ELSE "none"]
      /\ kt_state = [d \in Desc |-> IF d \in 1 .. n THEN "KT_RUNNABLE" ELSE "KT_NO_STATE"]
      /\ kt_retval = [d \in Desc |-> 0]
      /\ loc = [d \in Desc |-> NoLoc]
      /\ last = NoRet
      /\ halted = "no"
      /\ at_exit = [d \in Desc |-> NoExit]
      /\ p_files = [d \in Desc |-> IF d = 1 THEN tbl ELSE NoFiles]
      /\ p_cwd = [d \in Desc |-> IF d = 1 THEN cwd ELSE NULLP]
      /\ f_refcount = [f \in Files |-> Slots(tbl, f)]
      /\ vn_refcount = [v \in Vnodes |-> IF cwd = v THEN 1 ELSE 0]
      /\ p_threads = [d \in Desc |-> IF d \in 1 .. n THEN {d} ELSE {}]
      /\ kt_cancelled = [d \in Desc |-> FALSE]
      /\ ka = [d \in Desc |-> NoKill]
      /\ f_mode = [f \in Files |-> 0]
      /\ ldisc_init

GetIdNext == \E t \in Desc : CreateGetId(t) \/ CreateAllocFail(t)

GetIdSpec == GetIdInit /\ [][GetIdNext]_vars

\* Processes with open files: the init process has been created and has any
\* file table and working directory, each reference counted once; processes
\* create children, exit and wait for any child.
FileInit ==
    \E tbl \in [Fds -> Files \cup {NULLP}], cwd \in Vnodes \cup {NULLP} :
      /\ p_pid = [d \in Desc |-> IF d = 1 THEN PID_INIT ELSE 0]
      /\ p_state = [d \in Desc |-> "RUNNING"]
      /\ p_status = [d \in Desc |-> 0]
      /\ p_pproc = [d \in Desc |-> IF d = 1 THEN idleproc ELSE NULLP]
      /\ p_children = [d \in Desc |-> IF d = idleproc THEN <<1>> ELSE <<>>]
      /\ p_wait = [d \in Desc |-> {}]
      /\ proc_list = <<1>>
      /\ next_pid = 2
      /\ proc_initproc = 1
      /\ slab_live = {1}
      /\ slab_next = 2
      /\ slab_cap = MaxProcs
      /\ pc = [d \in Desc |-> IF d \in {idleproc, 1} THEN "run" ELSE "none"]
      /\ kt_state = [d \in Desc |-> IF d = 1 THEN "KT_RUNNABLE" ELSE "KT_NO_STATE"]
      /\ kt_retval = [d \in Desc |-> 0]
      /\ loc = [d \in Desc |-> NoLoc]
      /\ last = NoRet
      /\ halted = "no"
      /\ at_exit = [d \in Desc |-> NoExit]
      /\ p_files = [d \in Desc |-> IF d = 1 THEN tbl ELSE NoFiles]
      /\ p_cwd = [d \in Desc |-> IF d = 1 THEN cwd ELSE NULLP]
      /\ f_refcount = [f \in Files |-> Slots(tbl, f)]
      /\ vn_refcount = [v \in Vnodes |-> IF cwd = v THEN 1 ELSE 0]
      /\ p_threads = [d \in Desc |-> IF d = 1 THEN {1} ELSE {}]
      /\ kt_cancelled = [d \in Desc |-> FALSE]
      /\ ka = [d \in Desc |-> NoKill]
      /\ f_mode = [f \in Files |-> 0]
      /\ ldisc_init

FileStep(t) ==
    \/ CreateCloneFault(t)
    \/ CreateLinkChild(t)
    \/ CreateLinkList(t)
    \/ StartThread(t)
    \/ WaitAnyScan(t)
    \/ sched_sleep_on(t)
    \/ WaitStatus(t)
    \/ WaitRemove(t)
    \/ proc_destroy(t)
    \/ CleanupStatus(t)
    \/ CleanupInit(t)
    \/ CleanupRemove(t)
    \/ CleanupInsert(t)
    \/ CleanupParent(t)
    \/ ExitState(t)
    \/ ExitBroadcast(t)

FileCall(t) ==
    \/ CreateGetId(t)
    \/ WaitCall(t, 0 - 1, 0, TRUE)
    \/ do_exit(t, 0)

FileNext == \E t \in Desc : FileStep(t) \/ FileCall(t)

FileSpec == FileInit /\ [][FileNext]_vars

\* ------------------------------------------------------- ldisc_wait_read
\* The reading thread enters ldisc_wait_read(ldisc, lock) holding the lock
\* associated with the line discipline.
WaitReadCall ==
    /\ rd_pc = "idle"
    /\ ~tty_lock
    /\ tty_lock' = TRUE
    /\ rd_pc' = "wr_check"
    /\ ld_last' = NoLd
    /\ UNCHANGED <<lifeVars, ld_typed, ldisc_buffer, ldisc_head, ldisc_tail, ldisc_cooked, ldisc_full,
                   ldisc_read_queue, rd_ret, rd_cancelled>>

\* The loop condition: nothing to read while the buffer is not full and
\* cooked == tail.
NothingToRead_TailHead == ldisc_full = 0 /\ ldisc_head = ldisc_tail

NothingToRead == ldisc_full = 0 /\ ldisc_cooked = ldisc_tail

\* while (!ldisc->ldisc_full && ldisc->ldisc_cooked == ldisc->ldisc_tail):
\* go on to sleep, or leave the loop and return 0.
WaitReadCheck ==
    /\ rd_pc = "wr_check"
    /\ IF NothingToRead
       THEN /\ rd_pc' = "wr_sleep"
            /\ ld_last' = NoLd
            /\ UNCHANGED rd_ret
       ELSE /\ rd_pc' = "rd_read"
            /\ rd_ret' = 0
            /\ ld_last' = [NoLd EXCEPT !.op = "wait_read", !.val = 0]
    /\ UNCHANGED <<lifeVars, ld_typed, ldisc_buffer, ldisc_head, ldisc_tail, ldisc_cooked, ldisc_full,
                   ldisc_read_queue, tty_lock, rd_cancelled>>

\* sched_cancellable_sleep_on(&ldisc->ldisc_read_queue, lock): releases the
\* lock and blocks on the queue; a thread that is already cancelled does
\* not block.
sched_cancellable_sleep_on ==
    /\ rd_pc = "wr_sleep"
    /\ tty_lock' = FALSE
    /\ IF rd_cancelled
       THEN /\ rd_pc' = "wr_woken"
            /\ UNCHANGED ldisc_read_queue
       ELSE /\ rd_pc' = "wr_asleep"
            /\ ldisc_read_queue' = {"reader"}
    /\ ld_last' = NoLd
    /\ UNCHANGED <<lifeVars, ld_typed, ldisc_buffer, ldisc_head, ldisc_tail, ldisc_cooked, ldisc_full,
                   rd_ret, rd_cancelled>>

\* The value sched_cancellable_sleep_on returns to a resumed thread.
SleepRet == IF rd_cancelled THEN 0 - EINTR ELSE 0

\* if (ret) return ret; otherwise the loop condition is evaluated again.
WaitReadWoken ==
    /\ rd_pc = "wr_woken"
    /\ IF SleepRet # 0
       THEN /\ rd_pc' = "idle"
            /\ rd_ret' = SleepRet
            /\ ld_last' = [NoLd EXCEPT !.op = "wait_read", !.val = SleepRet]
       ELSE /\ rd_pc' = "wr_check"
            /\ ld_last' = NoLd
            /\ UNCHANGED rd_ret
    /\ UNCHANGED <<lifeVars, ld_typed, ldisc_buffer, ldisc_head, ldisc_tail, ldisc_cooked, ldisc_full,
                   ldisc_read_queue, tty_lock, rd_cancelled>>

\* kthread_cancel of the reading thread: it is marked cancelled, and taken
\* off the queue if it is in a cancellable sleep.
ReaderCancel ==
    /\ ~rd_cancelled
    /\ rd_cancelled' = TRUE
    /\ IF rd_pc = "wr_asleep"
       THEN rd_pc' = "wr_woken" /\ ldisc_read_queue' = {}
       ELSE UNCHANGED <<rd_pc, ldisc_read_queue>>
    /\ ld_last' = NoLd
    /\ UNCHANGED <<lifeVars, ld_typed, ldisc_buffer, ldisc_head, ldisc_tail, ldisc_cooked, ldisc_full,
                   tty_lock, rd_ret>>

\* ------------------------------------------------------------ ldisc_read
\* The loop of ldisc_read from index i on: the new tail and the bytes
\* copied into buf.
RECURSIVE ReadLoop(_, _, _, _)
ReadLoop(i, count, tail, buf) ==
    IF i >= count \/ (tail = ldisc_cooked /\ ldisc_full = 0)
    THEN [tail |-> tail, buf |-> buf]
    ELSE LET c == ldisc_buffer[tail]
             nt == (tail + 1) % LDISC_BUFFER_SIZE
         IN  IF c = "eot" \/ c = "nl"
             THEN [tail |-> nt, buf |-> buf]
             ELSE ReadLoop(i + 1, count, nt, Append(buf, c))

\* ldisc_read(ldisc, buf, count), by the thread ldisc_wait_read returned 0
\* to; the full flag is cleared at the end.
ldisc_read(count) ==
    /\ rd_pc = "rd_read"
    /\ LET r == ReadLoop(0, count, ldisc_tail, <<>>) IN
         /\ ldisc_tail' = r.tail
         /\ ld_last' = [NoLd EXCEPT !.op = "read", !.val = Len(r.buf), !.buf = r.buf]
    /\ ldisc_full' = 0
    /\ tty_lock' = FALSE
    /\ rd_pc' = "idle"
    /\ UNCHANGED <<lifeVars, ld_typed, ldisc_buffer, ldisc_head, ldisc_cooked, ldisc_read_queue,
                   rd_ret, rd_cancelled>>

\* ------------------------------------------------------ ldisc_key_pressed
\* sched_wakeup_on(&ldisc->ldisc_read_queue, NULL): the thread sleeping on
\* the queue, if there is one, resumes.
sched_wakeup_on(label) == IF label = "wr_asleep" THEN "wr_woken" ELSE label

\* The slots from i up to, not including, j, going round the buffer.
RECURSIVE Segment(_, _)
Segment(i, j) == IF i = j THEN {} ELSE {i} \cup Segment((i + 1) % LDISC_BUFFER_SIZE, j)

\* ETX: head = cooked, the bytes from tail to cooked are zeroed.
KeyETX ==
    /\ ldisc_head' = ldisc_cooked
    /\ ldisc_buffer' = [i \in Slot |-> IF i \in Segment(ldisc_tail, ldisc_cooked)
                                       THEN "nul" ELSE ldisc_buffer[i]]
    /\ ld_last' = [NoLd EXCEPT !.op = "key", !.c = "etx"]
    /\ UNCHANGED <<ld_typed, ldisc_tail, ldisc_cooked, ldisc_full, ldisc_read_queue, rd_pc>>

\* EOT and newline: when the buffer is not full the byte is stored, the
\* full flag is set if head has reached tail, everything is cooked and the
\* reader is woken.
KeyLine(c) ==
    IF ldisc_full = 0
    THEN LET nh == (ldisc_head + 1) % LDISC_BUFFER_SIZE IN
         /\ ldisc_buffer' = [ldisc_buffer EXCEPT ![ldisc_head] = c]
         /\ ld_typed' = [ld_typed EXCEPT ![ldisc_head] = c]
         /\ ldisc_head' = nh
         /\ ldisc_full' = IF nh = ldisc_tail THEN 1 ELSE ldisc_full
         /\ ldisc_cooked' = nh
         /\ ldisc_read_queue' = {}
         /\ rd_pc' = sched_wakeup_on(rd_pc)
         /\ ld_last' = [NoLd EXCEPT !.op = "key", !.c = c, !.ok = TRUE]
         /\ UNCHANGED ldisc_tail
    ELSE /\ ld_last' = [NoLd EXCEPT !.op = "key", !.c = c]
         /\ UNCHANGED <<ld_typed, ldisc_buffer, ldisc_head, ldisc_tail, ldisc_cooked,
                        ldisc_full, ldisc_read_queue, rd_pc>>

\* head - 1 in unsigned arithmetic of SizeBits bits, then % LDISC_BUFFER_SIZE.
HeadBack_Signed(h) == h - 1

HeadBack(h) == ((h - 1) % (2 ^ SizeBits)) % LDISC_BUFFER_SIZE

\* Backspace: head moves back by one if there is an uncooked byte.
KeyBS ==
    /\ ldisc_head' = IF ldisc_cooked # ldisc_head
                     THEN HeadBack(ldisc_head)
                     ELSE ldisc_head
    /\ ld_last' = [NoLd EXCEPT !.op = "key", !.c = "bs", !.ok = ldisc_cooked # ldisc_head]
    /\ UNCHANGED <<ld_typed, ldisc_buffer, ldisc_tail, ldisc_cooked, ldisc_full,
                   ldisc_read_queue, rd_pc>>

KeyChar_Greedy(c) ==
    IF ldisc_full # 0
    THEN /\ ld_last' = [NoLd EXCEPT !.op = "key", !.c = c]
         /\ UNCHANGED <<ld_typed, ldisc_buffer, ldisc_head, ldisc_tail, ldisc_cooked,
                        ldisc_full, ldisc_read_queue, rd_pc>>
    ELSE /\ ldisc_buffer' = [ldisc_buffer EXCEPT ![ldisc_head] = c]
         /\ ld_typed' = [ld_typed EXCEPT ![ldisc_head] = c]
         /\ ldisc_head' = (ldisc_head + 1) % LDISC_BUFFER_SIZE
         /\ ld_last' = [NoLd EXCEPT !.op = "key", !.c = c, !.ok = TRUE]
         /\ UNCHANGED <<ldisc_tail, ldisc_cooked, ldisc_full, ldisc_read_queue, rd_pc>>

\* Any other character: dropped when the buffer is full or has one free
\* byte left, stored at head otherwise.
KeyChar(c) ==
    IF ldisc_full # 0 \/ (ldisc_head + 1) % LDISC_BUFFER_SIZE = ldisc_tail
    THEN /\ ld_last' = [NoLd EXCEPT !.op = "key", !.c = c]
         /\ UNCHANGED <<ld_typed, ldisc_buffer, ldisc_head, ldisc_tail, ldisc_cooked,
                        ldisc_full, ldisc_read_queue, rd_pc>>
    ELSE /\ ldisc_buffer' = [ldisc_buffer EXCEPT ![ldisc_head] = c]
         /\ ld_typed' = [ld_typed EXCEPT ![ldisc_head] = c]
         /\ ldisc_head' = (ldisc_head + 1) % LDISC_BUFFER_SIZE
         /\ ld_last' = [NoLd EXCEPT !.op = "key", !.c = c, !.ok = TRUE]
         /\ UNCHANGED <<ldisc_tail, ldisc_cooked, ldisc_full, ldisc_read_queue, rd_pc>>

\* ldisc_key_pressed(ldisc, c): the function takes no lock.
ldisc_key_pressed(c) ==
    /\ CASE c = "etx" -> KeyETX
         [] c \in {"eot", "nl"} -> KeyLine(c)
         [] c = "bs" -> KeyBS
         [] OTHER -> KeyChar(c)
    /\ UNCHANGED <<lifeVars, tty_lock, rd_ret, rd_cancelled>>

\* The line discipline of one terminal with one reading thread.
LdiscNext ==
    \/ WaitReadCall
    \/ WaitReadCheck
    \/ sched_cancellable_sleep_on
    \/ WaitReadWoken
    \/ ReaderCancel
    \/ \E count \in 0 .. MaxCount : ldisc_read(count)
    \/ \E c \in Keys : ldisc_key_pressed(c)

LdiscSpec == Init /\ [][LdiscNext]_vars

\* ldisc_read called in any state, with no ldisc_wait_read before it.
ReadCall(count) ==
    /\ rd_pc = "idle"
    /\ LET r == ReadLoop(0, count, ldisc_tail, <<>>) IN
         /\ ldisc_tail' = r.tail
         /\ ld_last' = [NoLd EXCEPT !.op = "read", !.val = Len(r.buf), !.buf = r.buf]
    /\ ldisc_full' = 0
    /\ UNCHANGED <<lifeVars, ld_typed, ldisc_buffer, ldisc_head, ldisc_cooked,
                   ldisc_read_queue, tty_lock, rd_pc, rd_ret, rd_cancelled>>

\* The line discipline as a data structure: any sequence of key presses
\* and reads.
LdiscOpsNext ==
    \/ \E count \in 0 .. MaxCount : ReadCall(count)
    \/ \E c \in Keys : ldisc_key_pressed(c)

LdiscOpsSpec == Init /\ [][LdiscOpsNext]_vars

\* The scheduler runs a runnable reading thread eventually.
LdiscFairSpec ==
    /\ LdiscSpec
    /\ WF_vars(WaitReadCheck)
    /\ WF_vars(sched_cancellable_sleep_on)
    /\ WF_vars(WaitReadWoken)

\* The same with every key delivered by a caller that holds the lock
\* associated with the line discipline, so that no key is handled while the
\* reading thread holds it.
KeyUnderLock(c) == ~tty_lock /\ ldisc_key_pressed(c)

LockedLdiscNext ==
    \/ WaitReadCall
    \/ WaitReadCheck
    \/ sched_cancellable_sleep_on
    \/ WaitReadWoken
    \/ ReaderCancel
    \/ \E count \in 0 .. MaxCount : ldisc_read(count)
    \/ \E c \in Keys : KeyUnderLock(c)

LockedLdiscFairSpec ==
    /\ Init /\ [][LockedLdiscNext]_vars
    /\ WF_vars(WaitReadCheck)
    /\ WF_vars(sched_cancellable_sleep_on)
    /\ WF_vars(WaitReadWoken)

\* ------------------------------------------------------------------ do_open
\* oflags & flag, bit by bit.
RECURSIVE BitAnd(_, _)
BitAnd(a, b) ==
    IF a = 0 \/ b = 0 THEN 0
    ELSE (a % 2) * (b % 2) + 2 * BitAnd(a \div 2, b \div 2)

RECURSIVE BitOr(_, _)
BitOr(a, b) ==
    IF a = 0 THEN b
    ELSE IF b = 0 THEN a
    ELSE (IF a % 2 = 1 \/ b % 2 = 1 THEN 1 ELSE 0) + 2 * BitOr(a \div 2, b \div 2)

\* The flag words do_open is called with.
OFlags == { BitOr(acc, BitOr(app, tr)) : acc \in {O_RDONLY, O_WRONLY, O_RDWR, BitOr(O_WRONLY, O_RDWR)},
                                         app \in {0, O_APPEND}, tr \in {0, O_TRUNC} }

\* get_empty_fd: the first null entry of curproc->p_files, -1 if there is none.
get_empty_fd(tbl) ==
    IF \A fd \in Fds : tbl[fd] # NULLP THEN 0 - 1
    ELSE CHOOSE fd \in Fds : tbl[fd] = NULLP /\ \A g \in Fds : g < fd => tbl[g] # NULLP

\* The conversion of oflags into the file mode.
ConvertFlag(oflags) ==
    LET m0 == IF BitAnd(oflags, O_RDONLY) # 0 THEN FMODE_READ ELSE 0
        m1 == IF BitAnd(oflags, O_WRONLY) # 0 THEN BitOr(m0, FMODE_WRITE) ELSE m0
        m2 == IF BitAnd(oflags, O_RDWR) # 0 THEN BitOr(m1, BitOr(FMODE_READ, FMODE_WRITE)) ELSE m1
    IN  IF BitAnd(oflags, O_APPEND) # 0 THEN BitOr(m2, FMODE_APPEND) ELSE m2

\* File objects not in use, from which fcreate allocates.
FreeFiles == { f \in Files : f_refcount[f] = 0 }

\* do_open(filename, oflags) by process t. nv is what namev_open returns (0
\* with a referenced vnode, a directory if isdir, or an error) and mem says
\* whether fcreate gets memory. On success fcreate puts a new file with the
\* converted mode, holding a reference to the vnode, into slot fd.
do_open(t, oflags, nv, isdir, mem) ==
    /\ Running
    /\ pc[t] = "run"
    /\ t # idleproc
    /\ LET fd == get_empty_fd(p_files[t])
           wr == BitAnd(oflags, O_WRONLY) # 0 \/ BitAnd(oflags, O_RDWR) # 0
           ret == IF BitAnd(oflags, O_WRONLY) # 0 /\ BitAnd(oflags, O_RDWR) # 0 THEN 0 - EINVAL
                  ELSE IF fd < 0 THEN 0 - EMFILE
                  ELSE IF nv # 0 THEN nv
                  ELSE IF wr /\ isdir THEN 0 - EISDIR
                  ELSE IF ~mem \/ FreeFiles = {} THEN 0 - ENOMEM
                  ELSE fd
       IN  /\ last' = [NoRet EXCEPT !.t = t, !.op = "do_open", !.arg = oflags, !.val = ret]
           /\ IF ret >= 0
              THEN LET f == CHOOSE g \in FreeFiles : \A h \in FreeFiles : g <= h
                       vn == CHOOSE v \in Vnodes : TRUE
                   IN  /\ p_files' = [p_files EXCEPT ![t][fd] = f]
                       /\ f_refcount' = [f_refcount EXCEPT ![f] = 1]
                       /\ f_mode' = [f_mode EXCEPT ![f] = ConvertFlag(oflags)]
                       /\ vn_refcount' = vref(vn_refcount, vn)
              ELSE UNCHANGED <<p_files, f_refcount, f_mode, vn_refcount>>
    /\ UNCHANGED <<ldiscVars, procVars, globVars, thrVars, halted, at_exit, p_cwd, killVars>>

\* Calls of do_open by the init process on any file table.
OpenNext ==
    \E oflags \in OFlags, nv \in {0, 0 - ENOENT}, isdir \in BOOLEAN, mem \in BOOLEAN :
        do_open(1, oflags, nv, isdir, mem)

OpenSpec == FileInit /\ [][OpenNext]_vars

\* ================================================================ claims
Children(t) == SeqToSet(p_children[t])

\* The value process c passed, or is passing, to do_exit.
ExitArg(c) == IF pc[c] = "exited" THEN kt_retval[c] ELSE loc[c].status

\* Thread t is inside do_waitpid.
InWait(t) ==
    pc[t] \in {"wp_check", "wp_sleep", "wp_asleep", "wa_scan", "wa_sleep", "wa_asleep",
               "w_status", "w_remove", "w_destroy"}

\* A child that the do_waitpid call of t is waiting for has called exit.
QualifyingDead(t) ==
    IF loc[t].arg > 0
    THEN p_state[loc[t].child] = "DEAD"
    ELSE \E c \in Children(t) : p_state[c] = "DEAD"

\* do_waitpid returned the pid of a child in the step just taken.
Reaped == last.op = "wait" /\ last.val > 0

\* Every process other than t has finished exiting: no thread is left that
\* could wake t.
OnlyLeft(t) == \A d \in slab_live \ {t} : pc[d] = "exited"

\* C1: under fair scheduling a do_waitpid call whose qualifying child has
\* called exit eventually returns (or the system has halted): no wake-up is
\* lost between the parent's check of the child's state and its sleep.
C1_WaitReturns ==
    \A t \in Desc :
      (InWait(t) /\ QualifyingDead(t)) ~> (~InWait(t) \/ halted # "no")

\* C2: a do_waitpid call that returns a child's pid delivers the status that
\* child passed to exit, and has removed the child from every child list and
\* from the registry, so no other call returns it and the same parent has no
\* child with that pid any more.
C2_ReapOnce ==
    Reaped =>
      /\ last.status = ExitArg(last.child)
      /\ last.child \notin slab_live
      /\ last.child \notin SeqToSet(proc_list)
      /\ \A d \in Desc : last.child \notin Children(d)
      /\ ChildWithPid(last.t, last.val) = NULLP

\* A step in which thread t entered do_waitpid.
EntersWait(t) ==
    /\ pc[t] = "run"
    /\ \/ pc'[t] \in {"wp_check", "wa_scan"}
       \/ (last'.op = "wait" /\ last'.t = t)

\* C3: do_waitpid with pid == 0, pid < -1 or options != 0 returns -ENOTSUP in
\* the calling step itself (it never blocks), whatever the status pointer is,
\* and leaves every process field, child list and the registry unchanged.
C3_EnotsupNoEffect ==
    [][\A t \in Desc : EntersWait(t) =>
         \A pid \in WaitPidArgs, options \in WaitOptions, sp \in BOOLEAN :
           ((pid = 0 \/ pid < 0 - 1 \/ options # 0) /\ WaitCall(t, pid, options, sp))
           => /\ last' = WaitRet(t, pid, 0 - ENOTSUP)
              /\ pc'[t] = "run"
              /\ UNCHANGED <<procVars, globVars>>]_vars

C3_Witness ==
    /\ last.op = "wait"
    /\ last.val = 0 - ENOTSUP
    /\ last.arg < 0 - 1
    /\ Children(last.t) # {}

\* C4: do_waitpid(-1, status, 0) by a process whose child list is empty
\* returns -ECHILD in the calling step and changes no process state.
C4_AnyNoChildren ==
    [][\A t \in Desc : (EntersWait(t) /\ p_children[t] = <<>>) =>
         \A sp \in BOOLEAN : WaitCall(t, 0 - 1, 0, sp)
           => /\ last' = WaitRet(t, 0 - 1, 0 - ECHILD)
              /\ pc'[t] = "run"
              /\ UNCHANGED <<procVars, globVars>>]_vars

C4_Witness ==
    /\ last.op = "wait"
    /\ last.arg = 0 - 1
    /\ last.val = 0 - ECHILD
    /\ p_children[last.t] = <<>>

\* C5: do_waitpid(pid, status, 0) with pid > 0 returns -ECHILD in the calling
\* step whenever no member of the caller's child list has that pid, also when
\* a registered process with that pid is a child of another process.
C5_NotMyChild ==
    [][\A t \in Desc : EntersWait(t) =>
         \A pid \in Pids, sp \in BOOLEAN :
           ((\A c \in Children(t) : p_pid[c] # pid) /\ WaitCall(t, pid, 0, sp))
           => /\ last' = WaitRet(t, pid, 0 - ECHILD)
              /\ pc'[t] = "run"
              /\ UNCHANGED <<procVars, globVars>>]_vars

C5_Witness ==
    /\ last.op = "wait"
    /\ last.arg > 0
    /\ last.val = 0 - ECHILD
    /\ \E d \in SeqToSet(proc_list) :
         /\ p_pid[d] = last.arg
         /\ p_state[d] = "RUNNING"
         /\ p_pproc[d] # last.t
         /\ p_pproc[p_pproc[d]] = last.t

\* C6: a do_waitpid for a specific pid leaves its loop, and returns, only
\* when the awaited child is DEAD; a wake-up sends it back to the check; and
\* while it waits no other child leaves the caller's child list.
WaitingForPid(t) ==
    /\ pc[t] \in {"wp_check", "wp_sleep", "wp_asleep", "w_status", "w_remove", "w_destroy"}
    /\ loc[t].arg > 0

C6_SpecificWaitsForDead ==
    [][\A t \in Desc :
         WaitingForPid(t) =>
           /\ (pc'[t] = "w_status" /\ pc[t] # "w_status")
                => p_state[loc[t].child] = "DEAD"
           /\ (last'.op = "wait" /\ last'.t = t /\ last'.val > 0)
                => (last'.val = loc[t].arg /\ p_state[loc[t].child] = "DEAD")
           /\ (Children(t) \ {loc[t].child}) \subseteq SeqToSet(p_children'[t])]_vars

C6_Witness ==
    \E t \in Desc :
      /\ pc[t] = "wp_sleep"
      /\ p_state[loc[t].child] = "RUNNING"
      /\ \E s \in Children(t) :
           s # loc[t].child /\ p_state[s] = "DEAD" /\ pc[s] = "exited"

\* C7: a parent all of whose N children have exited gets N returns from
\* repeated do_waitpid(-1) calls, each with the status the returned child
\* passed to exit: it is never left asleep in do_waitpid(-1) with unreaped
\* children when every other process has finished exiting.
C7_ReapAll ==
    /\ (Reaped /\ last.arg = 0 - 1) =>
         (last.val = p_pid[last.child] /\ last.status = ExitArg(last.child))
    /\ \A t \in slab_live :
         ~(pc[t] = "wa_asleep" /\ Children(t) # {} /\ OnlyLeft(t))

\* The processes that were on t's child list when t entered proc_cleanup.
Orphans(t) == at_exit[t].kids

\* Some do_waitpid call has unlinked c from its parent's child list and is
\* about to destroy it.
BeingReaped(c) == \E r \in Desc : pc[r] = "w_destroy" /\ loc[r].child = c

\* c is on the init process's child list, once, and on no other, and its
\* parent link is the init process.
AdoptedByInit(c) ==
    /\ p_pproc[c] = proc_initproc
    /\ Len(SelectSeq(p_children[proc_initproc], LAMBDA x : x = c)) = 1
    /\ \A d \in Desc \ {proc_initproc} : c \notin Children(d)

\* Thread t, not the init process, has just finished proc_cleanup.
CleanupDone(t) == pc[t] = "te_bcast"

\* C8 as stated: when a non-init process finishes proc_cleanup its child list
\* is empty and every process that was on it is on the init process's child
\* list with the init process as parent.
C8_AllAdopted ==
    \A t \in Desc : CleanupDone(t) =>
      /\ p_children[t] = <<>>
      /\ \A c \in Orphans(t) : AdoptedByInit(c)

\* C8, amended: when a non-init process finishes proc_cleanup its child list
\* is empty and every process that was on it is on the init process's child
\* list with the init process as parent, unless the init process has already
\* taken it off that list to reap it.
C8_AdoptedOrReaped ==
    \A t \in Desc : CleanupDone(t) =>
      /\ p_children[t] = <<>>
      /\ \A c \in Orphans(t) :
           c \notin slab_live \/ BeingReaped(c) \/ AdoptedByInit(c)

C8_Witness ==
    \E t \in Desc :
      /\ CleanupDone(t)
      /\ \E c \in Orphans(t) :
           c \in slab_live /\ ~BeingReaped(c) /\ p_state[c] = "DEAD"

\* C9: a DEAD process adopted by the init process is reaped by the init
\* process's do_waitpid(-1): the init process is never left asleep in
\* do_waitpid(-1) with a DEAD adopted child on its list when every other
\* process has finished exiting.
C9_InitReapsAdopted ==
    ~ /\ proc_initproc # NULLP
      /\ pc[proc_initproc] = "wa_asleep"
      /\ OnlyLeft(proc_initproc)
      /\ \E p \in Desc : \E c \in Orphans(p) :
           c \in Children(proc_initproc) /\ p_state[c] = "DEAD"

\* do_waitpid(-1) by `caller` returned in the step just taken with child a,
\* which called exit(0) while the caller was asleep in that call with a as
\* its only child.
ScenarioReturn(caller, a) ==
    /\ Reaped
    /\ last.t = caller
    /\ last.arg = 0 - 1
    /\ last.child = a
    /\ at_exit[a].awaited
    /\ ExitArg(a) = 0

\* What C10 promises at that return: the pid and status of a, the init
\* process as parent of every child a had, and no child left to the caller
\* (its next do_waitpid(-1) finds an empty child list and returns -ECHILD).
ScenarioResult(caller, a) ==
    /\ last.val = p_pid[a]
    /\ last.status = 0
    /\ \A b \in Orphans(a) : p_pproc[b] = proc_initproc
    /\ list_empty(p_children[caller])

\* C10 as stated, for any calling process.
C10_Scenario ==
    \A caller \in Desc, a \in Desc :
      ScenarioReturn(caller, a) => ScenarioResult(caller, a)

\* C10, amended: for any calling process other than the init process.
C10_ScenarioNotInit ==
    \A caller \in Desc \ {proc_initproc}, a \in Desc :
      ScenarioReturn(caller, a) => ScenarioResult(caller, a)

C10_Witness ==
    \E caller \in Desc \ {proc_initproc}, a \in Desc :
      /\ ScenarioReturn(caller, a)
      /\ \E b \in Orphans(a) : b \in Children(proc_initproc) /\ p_state[b] = "RUNNING"

\* Process t has called proc_kill_all and its loop over proc_list is over.
KillAllDone(t) == ka[t].reg # {} /\ pc[t] # "ka_loop"

\* The three processes proc_kill_all must spare.
Spared(t) == {t, idleproc, proc_initproc}

\* C11: proc_kill_all passes to proc_kill, with status -1, every process that
\* is registered throughout the call except the caller, the idle process and
\* the init process, passes none of those three, and then the caller exits
\* with status -1: a do_waitpid that reaps the caller delivers -1.
C11_KillAll ==
    \A t \in Desc :
      /\ ka[t].hit \cap Spared(t) = {}
      /\ KillAllDone(t) =>
           /\ \A c \in (ka[t].reg \cap SeqToSet(proc_list)) \ Spared(t) : c \in ka[t].hit
           /\ ExitArg(t) = 0 - 1
      /\ (Reaped /\ last.child = t /\ ka[t].reg # {}) => last.status = 0 - 1

\* Process c is DEAD and proc_cleanup has stored its exit status.
StatusRecorded(c) == p_state[c] = "DEAD" /\ pc[c] # "cl_status"

\* C12: after proc_kill_all by t, every process that was registered and
\* RUNNING when t called it, other than t, the idle process and the init
\* process, ends DEAD with exit status -1 (so whenever such a process is DEAD
\* with its status stored, the status is -1), and neither the idle process
\* nor the init process is cancelled or made DEAD by the call.
C12_KilledStatus ==
    /\ ~kt_cancelled[idleproc]
    /\ p_state[idleproc] = "RUNNING"
    /\ proc_initproc # NULLP => ~kt_cancelled[proc_initproc]
    /\ \A t \in Desc : \A c \in ka[t].live \ Spared(t) :
         StatusRecorded(c) => p_status[c] = 0 - 1

\* Descriptors that slab_obj_alloc has handed out, other than idleproc.
Allocated == 1 .. (slab_next - 1)

\* Descriptors that a successful proc_create has returned: allocated ones
\* whose creator is past the insertion into proc_list.
Created == { d \in Allocated : \A t \in Desc : ~(pc[t] = "pc_list" /\ loc[t].child = d) }

\* Descriptors that have been passed to proc_destroy.
Destroyed == Allocated \ slab_live

C14_UniquePids ==
    \A d \in SeqToSet(proc_list), e \in SeqToSet(proc_list) :
      p_pid[d] = p_pid[e] => d = e

\* The pids held by registered processes, and the pids none of them holds.
Held == ListPids(proc_list, p_pid)

FreePids == Pids \ Held

\* The number of steps from pid a to pid b going round [1, PROC_MAX_COUNT).
CyclicDist(a, b) == (b - a) % (PROC_MAX_COUNT - 1)

\* Thread t calls proc_create in this step: its _proc_getid either fails, and
\* proc_create returns NULL at once, or leaves its result in the local pid.
GetIdFails(t) == pc[t] = "run" /\ pc'[t] = "run" /\ last' = CreateRet(t, NULLP)

GetIdReturns(t) == pc[t] = "run" /\ pc'[t] = "pc_alloc"

\* C15: _proc_getid fails exactly when every pid of [1, PROC_MAX_COUNT) is
\* held by a registered process, and then leaves the cursor alone; otherwise
\* it returns the free pid nearest to the cursor going round from it (never
\* 0) and moves the cursor to the cyclic successor of that pid.
C15_GetId ==
    [][\A t \in Desc :
         /\ GetIdFails(t) => (FreePids = {} /\ next_pid' = next_pid)
         /\ GetIdReturns(t) =>
              LET pid == loc'[t].pid IN
              /\ pid \in FreePids
              /\ \A q \in FreePids : CyclicDist(next_pid, pid) <= CyclicDist(next_pid, q)
              /\ next_pid' = (IF pid = PROC_MAX_COUNT - 1 THEN 1 ELSE pid + 1)]_vars

C15_Witness ==
    /\ last.op = "create"
    /\ last.val = NULLP
    /\ pc[last.t] = "run"
    /\ FreePids = {}
    /\ next_pid = 3

\* proc_create called by thread t returns NULL in this step: at once, when
\* _proc_getid failed, or after slab_obj_alloc failed.
CreateFails(t) == pc[t] \in {"run", "pc_alloc"} /\ last' = CreateRet(t, NULLP)

\* C16: a proc_create that returns NULL has left the registry, every child
\* list, the init pointer, every descriptor and every reference count of a
\* file or working directory as they were; when slab_obj_alloc failed, the
\* pid that had been chosen is held by nobody on account of this call, so
\* _proc_getid can return it again.
C16_FailedCreate ==
    [][\A t \in Desc : CreateFails(t) =>
         /\ UNCHANGED <<proc_list, proc_initproc, slab_live, slab_next, procVars, fileVars>>
         /\ pc'[t] = "run"
         /\ (pc[t] = "pc_alloc" /\ loc[t].pid \in FreePids) =>
              proc_getid(proc_list', p_pid', loc[t].pid) = loc[t].pid]_vars

C16_Witness ==
    /\ last.op = "create"
    /\ last.val = NULLP
    /\ FreePids # {}
    /\ p_children[last.t] # <<>>
    /\ \E f \in Files : f_refcount[f] > 0
    /\ p_cwd[last.t] # NULLP

\* Steps of a proc_create call by thread t that succeeds: the step that
\* allocates, initialises and links the descriptor as a child, and the step
\* that registers it and returns.
CreateLinks(t) == pc[t] = "pc_alloc" /\ pc'[t] = "pc_list"

CreateReturns(t) == pc[t] = "pc_list" /\ pc'[t] = "pc_ret"

\* Process e keeps its state, status, parent link and child list in this step.
ProcSame(e) ==
    /\ p_state'[e] = p_state[e]
    /\ p_status'[e] = p_status[e]
    /\ p_pproc'[e] = p_pproc[e]
    /\ p_children'[e] = p_children[e]

\* C17: a successful proc_create appends the new descriptor to the caller's
\* child list and to the registry and returns it RUNNING, with status 0, no
\* children, no threads and the caller as parent; it creates and schedules
\* no thread, and apart from the caller's child list it changes no state,
\* status, parent link or child list of any other process.
C17_CreateSucceeds ==
    [][\A t \in Desc :
         /\ CreateLinks(t) =>
              LET d == loc'[t].child IN
              /\ p_children'[t] = Append(p_children[t], d)
              /\ p_state'[t] = p_state[t] /\ p_status'[t] = p_status[t]
              /\ p_pproc'[t] = p_pproc[t]
              /\ \A e \in Desc \ {d, t} : ProcSame(e)
              /\ kt_state' = kt_state
              /\ \A e \in Desc \ {t} : pc'[e] = pc[e]
              /\ proc_list' = proc_list
         /\ CreateReturns(t) =>
              LET d == loc[t].child IN
              /\ last' = CreateRet(t, d)
              /\ proc_list' = Append(proc_list, d)
              /\ p_state'[d] = "RUNNING"
              /\ p_status'[d] = 0
              /\ p_children'[d] = <<>>
              /\ p_threads'[d] = {}
              /\ p_pproc'[d] = t
              /\ Len(SelectSeq(p_children'[t], LAMBDA x : x = d)) = 1
              /\ \A e \in Desc \ {t} : d \notin SeqToSet(p_children'[e])
              /\ pc'[d] = "none" /\ kt_state'[d] = "KT_NO_STATE"
              /\ \A e \in Desc : ProcSame(e)
              /\ kt_state' = kt_state /\ p_threads' = p_threads]_vars

C17_Witness ==
    /\ last.op = "create"
    /\ last.val # NULLP
    /\ Len(p_children[last.t]) >= 2
    /\ Head(p_children[last.t]) # last.val
    /\ \E e \in slab_live : p_state[e] = "DEAD" /\ pc[e] # "exited"

\* C18: the step of proc_create that fills in the new descriptor d gives
\* every slot of d the file the caller holds in that slot (none where the
\* caller has none), adds one to a file's reference count for each slot that
\* holds it, and gives d the caller's working directory, with one more
\* reference, when the caller has one.
C18_CloneFiles ==
    [][\A t \in Desc : CreateLinks(t) =>
         LET d == loc'[t].child IN
         /\ \A fd \in Fds : p_files'[d][fd] = p_files[t][fd]
         /\ \A f \in Files : f_refcount'[f] = f_refcount[f] + Slots(p_files[t], f)
         /\ p_cwd'[d] = p_cwd[t]
         /\ \A v \in Vnodes :
              vn_refcount'[v] = vn_refcount[v] + (IF p_cwd[t] = v THEN 1 ELSE 0)]_vars

\* The init process is the only process left: every process it created has
\* exited and been reaped, and it is between operations.
AllReaped ==
    /\ slab_live = {proc_initproc}
    /\ Destroyed # {}
    /\ \A d \in Destroyed : pc[d] = "exited"
    /\ pc[proc_initproc] = "run"

\* C19: once every created process has exited and been reaped, the reference
\* count of every file and of the working directory is what it was before
\* the creates, one per slot of the init process that holds it; and no count
\* ever falls below the number of references the live processes hold.
C19_RoundTrip ==
    /\ AllReaped =>
         /\ \A f \in Files : f_refcount[f] = Slots(p_files[proc_initproc], f)
         /\ \A v \in Vnodes :
              vn_refcount[v] = (IF p_cwd[proc_initproc] = v THEN 1 ELSE 0)
    /\ \A f \in Files : f_refcount[f] >= Slots(p_files[proc_initproc], f)
    /\ \A v \in Vnodes : vn_refcount[v] >= (IF p_cwd[proc_initproc] = v THEN 1 ELSE 0)

\* Thread d enters proc_cleanup in this step.
EntersCleanup(d) == pc[d] # "cl_status" /\ pc'[d] = "cl_status"

\* C20: a process that is DEAD stays DEAD; it becomes DEAD only in a step of
\* its own thread that enters proc_cleanup; proc_cleanup is entered only by
\* a thread whose process is still RUNNING, so at most once per descriptor;
\* and from the step that makes the process DEAD on, its exit status does
\* not change.
C20_DeadOnce ==
    [][\A d \in Desc :
         /\ p_state[d] = "DEAD" => p_state'[d] = "DEAD"
         /\ (p_state[d] = "RUNNING" /\ p_state'[d] = "DEAD") =>
              (pc[d] \in {"run", "ka_loop"} /\ EntersCleanup(d))
         /\ EntersCleanup(d) => (p_state[d] = "RUNNING" /\ p_state'[d] = "DEAD")
         /\ p_state[d] = "DEAD" => p_status'[d] = p_status[d]]_vars

\* Thread t executes proc_destroy(child) in this step.
Destroys(t) == pc[t] = "w_destroy" /\ pc'[t] = "run"

\* C21: proc_destroy is called only on a descriptor that is DEAD, is on no
\* child list any more, is not the caller's own and has not been destroyed
\* before; and a descriptor is freed only by the proc_destroy of a do_waitpid
\* call that then returns its pid.
C21_DestroyOnlyDead ==
    [][/\ \A t \in Desc : Destroys(t) =>
            LET c == loc[t].child IN
            /\ p_state[c] = "DEAD"
            /\ \A d \in Desc : c \notin Children(d)
            /\ c # t
            /\ c \in slab_live
            /\ c \in SeqToSet(proc_list)
            /\ last'.op = "wait" /\ last'.t = t /\ last'.val = p_pid[c] /\ last'.val > 0
       /\ \A c \in slab_live \ slab_live' :
            \E t \in Desc : Destroys(t) /\ loc[t].child = c]_vars

C21_Witness ==
    /\ Reaped
    /\ last.t = proc_initproc
    /\ last.child \notin slab_live
    /\ \E p \in Desc : last.child \in Orphans(p)

\* DEAD process c leaves the child list of d in this step.
DeadLeaves(c, d) ==
    /\ p_state[c] = "DEAD"
    /\ c \in Children(d)
    /\ c \notin SeqToSet(p_children'[d])

\* The step is the list_remove of d's do_waitpid, which goes on to destroy c.
ReapUnlinks(c, d) == pc[d] = "w_remove" /\ pc'[d] = "w_destroy" /\ loc[d].child = c

\* The step is the list_remove of the reparenting loop of d's proc_cleanup.
ExitUnlinks(c, d) == pc[d] = "cl_loop" /\ pc'[d] = "cl_ins" /\ loc'[d].child = c

\* C22 as stated: a DEAD process leaves the child list it is on only in the
\* list_remove of the do_waitpid call that destroys it.
C22_DeadStays ==
    [][\A c \in Desc, d \in Desc : DeadLeaves(c, d) => ReapUnlinks(c, d)]_vars

\* C22, amended: a DEAD process leaves the child list it is on only in the
\* list_remove of the do_waitpid call of the list's owner, which destroys
\* it, or in the reparenting loop of the owner's own exit, whose next step
\* puts it on the init process's child list.
C22_DeadStaysOrMoves ==
    [][/\ \A c \in Desc, d \in Desc :
            DeadLeaves(c, d) => (ReapUnlinks(c, d) \/ ExitUnlinks(c, d))
       /\ \A d \in Desc : (pc[d] = "cl_ins" /\ pc'[d] # "cl_ins") =>
            loc[d].child \in SeqToSet(p_children'[proc_initproc])]_vars

C22_Witness ==
    \E d \in Desc :
      /\ pc[d] = "cl_pp"
      /\ p_state[loc[d].child] = "DEAD"
      /\ pc[loc[d].child] = "exited"
      /\ loc[d].child \in Children(proc_initproc)

\* The child lists that hold descriptor c.
ParentsOf(c) == {d \in Desc : c \in Children(d)}

\* C23: in every reachable state every process on the registry other than
\* the idle and the init process is on exactly one child list, the list is
\* that of the process its p_pproc names, and that descriptor is not freed.
C23_ParentChild ==
    \A c \in SeqToSet(proc_list) \ {idleproc, proc_initproc} :
      /\ Cardinality(ParentsOf(c)) = 1
      /\ ParentsOf(c) = {p_pproc[c]}
      /\ p_pproc[c] \in slab_live

\* C24: whenever proc_destroy runs on a descriptor, every thread attached to
\* it is KT_EXITED and the dying process has finished its whole exit path
\* (proc_cleanup and proc_thread_exiting).
C24_DestroyAfterExit ==
    [][\A t \in Desc : Destroys(t) =>
          LET c == loc[t].child IN
          /\ \A thr \in p_threads[c] : kt_state[thr] = "KT_EXITED"
          /\ pc[c] = "exited"]_vars

\* Thread t's step is the list_insert_tail(&proc_list, ...) of proc_create.
RegistryInsert(t) == pc[t] = "pc_list" /\ pc'[t] = "pc_ret"

\* Thread t's step is the list_remove(&child->p_list_link) of proc_destroy.
RegistryRemove(t) == Destroys(t)

\* Thread t's step is the scan of proc_list in _proc_getid.
RegistryGetId(t) == pc[t] = "run" /\ (pc'[t] = "pc_alloc" \/ (last'.op = "create" /\ last'.t = t))

\* Thread t's step reads proc_list in the loop of proc_kill_all.
RegistryKillAll(t) == pc[t] \in {"run", "ka_loop"} /\ ka'[t].cur # ka[t].cur

\* Thread t's step lies between spinlock_lock(&proc_list_lock) and the
\* matching spinlock_unlock: the scan of _proc_getid and the list_remove of
\* proc_destroy are the only such regions that touch proc_list.
HoldsProcListLock(t) == RegistryGetId(t) \/ RegistryRemove(t)

\* Thread t's step puts it to sleep on a wait queue.
Blocks(t) == pc[t] \notin {"wp_asleep", "wa_asleep"} /\ pc'[t] \in {"wp_asleep", "wa_asleep"}

\* C25: every step that inserts into, removes from or iterates over
\* proc_list is made holding proc_list_lock, and no step that blocks holds it.
C25_RegistryLocked ==
    [][\A t \in Desc :
         /\ (RegistryInsert(t) \/ RegistryRemove(t) \/ RegistryGetId(t) \/ RegistryKillAll(t))
               => HoldsProcListLock(t)
         /\ Blocks(t) => ~HoldsProcListLock(t)]_vars

\* Statement labels that lie between spinlock_lock(&p->p_children_lock) and
\* its unlock: the lock is initialised in proc_idleproc_init and proc_create
\* and taken nowhere.
ChildrenLockRegion == {}

HoldsChildrenLock(t) == pc[t] \in ChildrenLockRegion

\* Thread t's step changes the child list of process o.
ChildSetWrite(t, o) == pc'[t] # pc[t] /\ p_children'[o] # p_children[o]

\* Process o is inside do_waitpid between the start of its walk over its
\* child list and the list_remove of the child it picked.
InWaitScan(o) == pc[o] \in {"wp_check", "wa_scan", "w_status", "w_remove"}

\* C26: a step that changes the child list of a process which is at that
\* moment scanning or unlinking in do_waitpid is made under the child-set
\* lock.
C26_ReparentAtomic ==
    [][\A t \in Desc, o \in Desc :
         (ChildSetWrite(t, o) /\ t # o /\ InWaitScan(o)) => HoldsChildrenLock(t)]_vars

\* The init process takes a step of its proc_cleanup: the two stores, the
\* resource release, or the call of initproc_finish.
InitCleanupStep(t) ==
    /\ t = proc_initproc
    /\ \/ pc'[t] # pc[t] /\ pc'[t] \in {"cl_status", "cl_loop"}
       \/ pc[t] = "cl_loop" /\ halted' = "shutdown"

\* C27: the proc_cleanup of the init process changes no child list and no
\* parent link, and when it calls initproc_finish the init process is DEAD
\* with the status it was given.
C27_InitExit ==
    [][\A t \in Desc : InitCleanupStep(t) =>
         /\ p_children' = p_children
         /\ p_pproc' = p_pproc
         /\ halted' = "shutdown" =>
               /\ p_state'[t] = "DEAD"
               /\ p_status'[t] = loc[t].status]_vars

C27_Witness ==
    /\ halted = "shutdown"
    /\ p_status[proc_initproc] = EXIT_STATUS
    /\ \E c \in Children(proc_initproc) : p_pproc[c] = proc_initproc /\ p_state[c] = "RUNNING"

\* C28: a do_waitpid call that was given no status destination and has
\* found its DEAD child goes on to unlink and destroy it; it does not fault.
C28_NullStatus ==
    [][\A t \in Desc :
         (pc[t] = "w_status" /\ ~loc[t].sp /\ halted = "no") => halted' # "panic"]_vars

\* The fields of the line discipline that hold its data.
ldiscFields == <<ldisc_buffer, ldisc_head, ldisc_tail, ldisc_cooked, ldisc_full>>

\* ldisc_wait_read returns val in this step.
WaitReadReturns(val) == ld_last'.op = "wait_read" /\ ld_last'.val = val

\* C29: ldisc_wait_read returns 0 only when the buffer is full or cooked
\* differs from tail; when neither holds its check leads to the sleep on the
\* read queue, and a wake leads back to the check; a cancelled sleep makes
\* it return -EINTR; no step of it changes a field of the line discipline.
C29_WaitRead ==
    [][/\ WaitReadReturns(0) => (ldisc_full # 0 \/ ldisc_cooked # ldisc_tail)
       /\ (rd_pc = "wr_check" /\ ldisc_full = 0 /\ ldisc_cooked = ldisc_tail /\ rd_pc' # rd_pc)
             => (rd_pc' = "wr_sleep" /\ UNCHANGED ldiscFields)
       /\ (rd_pc = "wr_sleep" /\ ~rd_cancelled /\ rd_pc' # rd_pc)
             => (rd_pc' = "wr_asleep" /\ "reader" \in ldisc_read_queue' /\ UNCHANGED ldiscFields)
       /\ (rd_pc = "wr_woken" /\ ~rd_cancelled /\ rd_pc' # rd_pc)
             => (rd_pc' = "wr_check" /\ UNCHANGED ldiscFields)
       /\ (rd_pc = "wr_woken" /\ rd_cancelled /\ rd_pc' # rd_pc)
             => (WaitReadReturns(0 - EINTR) /\ ldisc_read_queue' = {} /\ UNCHANGED ldiscFields)
       /\ \A val \in {0 - EINTR, 0} : WaitReadReturns(val) => UNCHANGED ldiscFields
       /\ ld_last'.op = "wait_read" => ld_last'.val \in {0 - EINTR, 0}]_vars

C29_Witness ==
    /\ ld_last.op = "wait_read"
    /\ ld_last.val = 0 - EINTR
    /\ ldisc_head # ldisc_cooked
    /\ ldisc_cooked = ldisc_tail

\* The reading thread is inside ldisc_wait_read and has not returned.
ReaderWaiting == rd_pc \in {"wr_check", "wr_sleep", "wr_asleep", "wr_woken"}

\* The step just taken stored a newline or an EOT.
LineAccepted == ld_last.op = "key" /\ ld_last.ok /\ ld_last.c \in {"nl", "eot"}

\* C30: a newline or EOT stored into a buffer that was not full cooks all
\* pending input and takes the sleeping reader off the read queue, and a
\* reader that was inside ldisc_wait_read at that moment goes on to return 0
\* unless it is cancelled.  The first conjunct holds of the code as it
\* stands; the second holds when keys are delivered under the lock
\* (LockedLdiscFairSpec) and fails, by a wake-up that comes between the
\* reader's check and its sleep, when they are not (LdiscFairSpec).
C30_ReaderWakes ==
    /\ [][(ld_last'.op = "key" /\ ld_last'.ok /\ ld_last'.c \in {"nl", "eot"}) =>
            /\ ldisc_full = 0
            /\ ldisc_cooked' = ldisc_head'
            /\ ldisc_head' = (ldisc_head + 1) % LDISC_BUFFER_SIZE
            /\ ldisc_read_queue' = {}
            /\ rd_pc = "wr_asleep" => rd_pc' = "wr_woken"]_vars
    /\ (ReaderWaiting /\ LineAccepted) ~> (rd_pc = "rd_read" \/ rd_cancelled)

\* The key pressed in this step, and whether it was stored.
KeyStep(c, ok) == ld_last'.op = "key" /\ ld_last'.c = c /\ ld_last'.ok = ok

\* C31: head, tail and cooked are indices of the buffer, cooked lies on the
\* ring from tail to head, a full buffer has head = tail = cooked; an
\* ordinary character is stored only when that leaves a byte free, and a
\* newline or EOT is stored whenever the buffer is not full.
C31_BufferInv ==
    /\ [](/\ ldisc_head \in Slot /\ ldisc_tail \in Slot /\ ldisc_cooked \in Slot
          /\ ldisc_full \in {0, 1}
          /\ ldisc_cooked \in Segment(ldisc_tail, ldisc_head) \cup {ldisc_head}
          /\ ldisc_full # 0 => (ldisc_head = ldisc_tail /\ ldisc_tail = ldisc_cooked))
    /\ [][/\ KeyStep("a", TRUE) =>
              /\ (ldisc_head + 1) % LDISC_BUFFER_SIZE # ldisc_tail
              /\ ldisc_head' # ldisc_tail'
              /\ ldisc_full' = 0
          /\ \A c \in {"nl", "eot"} : KeyStep(c, FALSE) => ldisc_full # 0
          /\ \A c \in {"nl", "eot"} : KeyStep(c, TRUE) => ldisc_full = 0]_vars

C31_Witness ==
    /\ ld_last.op = "key" /\ ld_last.c = "a" /\ ~ld_last.ok
    /\ ldisc_full = 0
    /\ (ldisc_head + 1) % LDISC_BUFFER_SIZE = ldisc_tail
    /\ ldisc_cooked # ldisc_tail
    /\ ldisc_cooked # ldisc_head

\* C32: a backspace with an uncooked byte (head # cooked) moves head back by
\* one modulo LDISC_BUFFER_SIZE, from index 0 to LDISC_BUFFER_SIZE - 1; with
\* none (head = cooked) it changes nothing; head stays on the ring from cooked,
\* and tail, cooked, the full flag and the buffer are never changed by it.
C32_Backspace ==
    [][ld_last'.op = "key" /\ ld_last'.c = "bs" =>
          /\ ldisc_cooked # ldisc_head =>
                /\ KeyStep("bs", TRUE)
                /\ ldisc_head' \in Slot
                /\ (ldisc_head' + 1) % LDISC_BUFFER_SIZE = ldisc_head
                /\ ldisc_head = 0 => ldisc_head' = LDISC_BUFFER_SIZE - 1
                /\ ldisc_head' \in Segment(ldisc_cooked, ldisc_head)
          /\ ldisc_cooked = ldisc_head =>
                /\ KeyStep("bs", FALSE)
                /\ ldisc_head' = ldisc_head
          /\ UNCHANGED <<ldisc_tail, ldisc_cooked, ldisc_full, ldisc_buffer>>]_vars

C32_Witness ==
    /\ ld_last.op = "key" /\ ld_last.c = "bs" /\ ld_last.ok
    /\ ldisc_head = LDISC_BUFFER_SIZE - 1
    /\ ldisc_cooked # ldisc_head

\* What ldisc_read(count) would return in the current state.
WouldRead(count) == ReadLoop(0, count, ldisc_tail, <<>>).buf

\* C33: an ETX sets head to cooked and leaves tail, cooked, the full flag and
\* every byte from tail up to cooked as they were, so ldisc_read returns after
\* the ETX what it would have returned before it.
C33_EtxFrame ==
    [][ld_last'.op = "key" /\ ld_last'.c = "etx" =>
          /\ ldisc_head' = ldisc_cooked
          /\ UNCHANGED <<ldisc_tail, ldisc_cooked, ldisc_full>>
          /\ \A i \in Segment(ldisc_tail, ldisc_cooked) : ldisc_buffer'[i] = ldisc_buffer[i]
          /\ \A n \in 0 .. LDISC_BUFFER_SIZE : WouldRead(n)' = WouldRead(n)]_vars

\* The slots holding cooked, unread bytes.
CookedSlots == IF ldisc_full # 0 THEN Slot ELSE Segment(ldisc_tail, ldisc_cooked)

\* The k-th slot from tail on (k = 1 is tail itself).
FromTail(k) == (ldisc_tail + k - 1) % LDISC_BUFFER_SIZE

\* C34: ldisc_read(count) returns n <= count and the n bytes copied are the
\* bytes typed into the n slots from tail on, in that order, none of them a
\* newline or EOT; the read consumes these n slots and at most one more, the
\* newline or EOT that ended it (not counted); it stops early only at such a
\* byte or when nothing cooked is left, and consumes cooked slots only.
C34_Read ==
    [][\A count \in 0 .. MaxCount : ReadCall(count) =>
          LET n == ld_last'.val
              b == ld_last'.buf
              used == Segment(ldisc_tail, ldisc_tail')
          IN  /\ n <= count
              /\ Len(b) = n
              /\ \A k \in 1 .. n : /\ b[k] = ld_typed[FromTail(k)]
                                   /\ b[k] \notin {"nl", "eot"}
              /\ \/ /\ ldisc_tail' = FromTail(n + 1)
                    /\ \/ n = count
                       \/ CookedSlots = {FromTail(k) : k \in 1 .. n}
                 \/ /\ ldisc_tail' = FromTail(n + 2)
                    /\ ld_typed[FromTail(n + 1)] \in {"nl", "eot"}
              /\ used \subseteq CookedSlots]_vars

\* C35: an ldisc_read that consumes no byte, because count is 0 or because
\* nothing cooked is unread, returns 0 and leaves head, tail, cooked, the full
\* flag and the buffer as they were.
C35_EmptyRead ==
    [][\A count \in 0 .. MaxCount :
          ReadCall(count) /\ (count = 0 \/ CookedSlots = {}) =>
              /\ ld_last'.val = 0
              /\ UNCHANGED <<ldisc_buffer, ldisc_head, ldisc_tail, ldisc_cooked>>
              /\ ldisc_full' = ldisc_full]_vars

\* The file mode documented for oflags: the access mode is the low two bits.
DocumentedMode(oflags) ==
    LET acc == oflags % 4
        m == IF acc = O_RDONLY THEN FMODE_READ
             ELSE IF acc = O_WRONLY THEN FMODE_WRITE
             ELSE BitOr(FMODE_READ, FMODE_WRITE)
    IN  IF BitAnd(oflags, O_APPEND) # 0 THEN BitOr(m, FMODE_APPEND) ELSE m

\* do_open returned in this step.
OpenReturns == last'.op = "do_open"

\* C36: do_open with O_WRONLY and O_RDWR together returns -EINVAL; with no
\* empty slot it returns -EMFILE; an error return leaves the file table as it
\* was; a successful open fills the lowest-numbered empty slot, and only that
\* slot, with a file whose mode is FMODE_READ for O_RDONLY, FMODE_WRITE for
\* O_WRONLY, both for O_RDWR, plus FMODE_APPEND for O_APPEND.
C36_Open ==
    [][OpenReturns =>
          LET t == last'.t
              oflags == last'.arg
              ret == last'.val
              empty == { fd \in Fds : p_files[t][fd] = NULLP }
          IN  /\ oflags % 4 = BitOr(O_WRONLY, O_RDWR) => ret = 0 - EINVAL
              /\ oflags % 4 # BitOr(O_WRONLY, O_RDWR) /\ empty = {} => ret = 0 - EMFILE
              /\ ret < 0 => p_files' = p_files
              /\ ret >= 0 =>
                    /\ ret \in empty
                    /\ \A fd \in empty : ret <= fd
                    /\ p_files'[t][ret] # NULLP
                    /\ \A d \in Desc, fd \in Fds :
                          <<d, fd>> # <<t, ret>> => p_files'[d][fd] = p_files[d][fd]
                    /\ f_mode'[p_files'[t][ret]] = DocumentedMode(oflags)]_vars

\* The same without the mode of an open with O_RDONLY.
C36_OpenButRdonly ==
    [][OpenReturns =>
          LET t == last'.t
              oflags == last'.arg
              ret == last'.val
              empty == { fd \in Fds : p_files[t][fd] = NULLP }
          IN  /\ oflags % 4 = BitOr(O_WRONLY, O_RDWR) => ret = 0 - EINVAL
              /\ oflags % 4 # BitOr(O_WRONLY, O_RDWR) /\ empty = {} => ret = 0 - EMFILE
              /\ ret < 0 => p_files' = p_files
              /\ ret >= 0 =>
                    /\ ret \in empty
                    /\ \A fd \in empty : ret <= fd
                    /\ p_files'[t][ret] # NULLP
                    /\ \A d \in Desc, fd \in Fds :
                          <<d, fd>> # <<t, ret>> => p_files'[d][fd] = p_files[d][fd]
                    /\ oflags % 4 # O_RDONLY =>
                          f_mode'[p_files'[t][ret]] = DocumentedMode(oflags)]_vars
====
